---- MODULE Spec2Model ----
(***************************************************************************)
(* kern: the enforcement engine (src/src/enforcer.rs), the termination     *)
(* helpers it calls (src/src/killer.rs), the sampler's ordering            *)
(* (src/src/monitor.rs), the notification gate (src/src/notify.rs) and the *)
(* configuration and profile records (src/src/config.rs, profiles.rs).     *)
(*                                                                         *)
(* Percentages and temperatures are f64 in the source; the model uses the  *)
(* integers that sit on and around every threshold the code compares with. *)
(* Option<Instant> is a sequence: <<>> is None, <<t>> is Some(t).          *)
(***************************************************************************)
EXTENDS Integers, Sequences, FiniteSets, TLC

(* ---------------------------- bounds ----------------------------------- *)
\* processes the OS shows in one sample
MaxProcs == 2
\* seconds the model's clock runs for
MaxClock == 2
\* seconds the clock of the notification gate runs for
MaxNotifyClock == 5
\* files in the profiles directory
MaxFiles == 2
\* requests the D-Bus listener serves at the same time
MaxRequests == 2
\* records in the kill log
MaxLog == 3

(* ---------------------------- Option ----------------------------------- *)
None == <<>>
Some(t) == <<t>>
is_some(o) == o # <<>>

(* ---------------------------- config.rs -------------------------------- *)
default_monitor_interval == 2
default_temp_warning == 75
default_temp_critical == 85
default_max_cpu == 90
default_max_ram == 85
default_protected_processes == <<"systemd", "gnome-shell", "kern">>

\* NotificationConfig as the engine specification loads it
NotificationConfigs ==
    { [enabled |-> FALSE, show_on_kill |-> TRUE, show_on_profile_switch |-> TRUE] }

\* threshold values a configuration file may carry
ThresholdVals == {default_temp_warning, default_temp_critical}

\* every configuration a file may describe, before validation
ConfigCandidates ==
    { [ default_profile     |-> "normal",
        monitor_interval    |-> default_monitor_interval,
        temperature         |-> [warning |-> w, critical |-> c],
        limits              |-> [max_cpu_percent |-> default_max_cpu,
                                 max_ram_percent |-> default_max_ram],
        protected_processes |-> default_protected_processes,
        notifications       |-> n,
        kill_graceful       |-> g ] :
        w \in ThresholdVals, c \in ThresholdVals, g \in BOOLEAN,
        n \in NotificationConfigs }

\* mutant: equal thresholds pass the ordering test
KernConfig_validate_allows_equal(cfg) ==
    /\ cfg.monitor_interval >= 1
    /\ cfg.monitor_interval <= 3600
    /\ cfg.limits.max_cpu_percent >= 0 /\ cfg.limits.max_cpu_percent <= 100
    /\ cfg.limits.max_ram_percent >= 0 /\ cfg.limits.max_ram_percent <= 100
    /\ cfg.temperature.warning >= 0 /\ cfg.temperature.warning <= 120
    /\ cfg.temperature.critical >= 0 /\ cfg.temperature.critical <= 120
    /\ ~(cfg.temperature.critical < cfg.temperature.warning)

\* KernConfig::validate
KernConfig_validate(cfg) ==
    /\ cfg.monitor_interval >= 1
    /\ cfg.monitor_interval <= 3600
    /\ cfg.limits.max_cpu_percent >= 0 /\ cfg.limits.max_cpu_percent <= 100
    /\ cfg.limits.max_ram_percent >= 0 /\ cfg.limits.max_ram_percent <= 100
    /\ cfg.temperature.warning >= 0 /\ cfg.temperature.warning <= 120
    /\ cfg.temperature.critical >= 0 /\ cfg.temperature.critical <= 120
    /\ ~(cfg.temperature.critical <= cfg.temperature.warning)

\* KernConfig::load: a file's configuration is accepted only when it validates
KernConfig_load == { cfg \in ConfigCandidates : KernConfig_validate(cfg) }

(* ---------------------------- profiles.rs ------------------------------ *)
default_max_temp == 85

\* Profile::default()
Profile_default ==
    [ name |-> "", protected |-> <<>>, kill_on_activate |-> <<>>,
      limits |-> [max_cpu_percent |-> default_max_cpu,
                  max_ram_percent |-> default_max_ram,
                  max_temp |-> default_max_temp] ]

\* a profile file: protects "bash", and on activation kills a name it protects
\* itself, a critical name, a globally protected name and an ordinary one
ProfileCoding ==
    [ name |-> "coding", protected |-> <<"bash">>,
      kill_on_activate |-> <<"bash", "systemd", "kern", "firefox">>,
      limits |-> [max_cpu_percent |-> default_max_cpu,
                  max_ram_percent |-> default_max_ram,
                  max_temp |-> 70] ]

\* main (Commands::Enforce): the engine starts on a default profile that only
\* carries the configured name
InitialProfile(cfg) == [Profile_default EXCEPT !.name = cfg.default_profile]

\* the profiles switch_profile may be handed
Profiles(cfg) == {InitialProfile(cfg), ProfileCoding}

\* A file stem, a profile key and the text of the .state file are sequences
\* of pieces: a word, or a white-space character that str::trim strips.
Whitespace == {" ", "\n"}

RECURSIVE trim_start(_)
trim_start(s) ==
    IF s # <<>> /\ s[1] \in Whitespace THEN trim_start(Tail(s)) ELSE s

RECURSIVE trim_end(_)
trim_end(s) ==
    IF s # <<>> /\ s[Len(s)] \in Whitespace
    THEN trim_end(SubSeq(s, 1, Len(s) - 1)) ELSE s

\* str::trim
trim(s) == trim_end(trim_start(s))

\* the values a profile file may give a percentage and max_temp: on and just
\* outside each end of the accepted range
PercentVals == {0 - 1, 0, 100, 101}
TempVals == {0 - 1, 0, 120, 121}

\* the profiles a file may describe: one with every field in range, and the
\* ones that differ from it in one field
ProfileWork == [Profile_default EXCEPT !.name = "work"]

ProfileCandidates ==
    {ProfileWork, [ProfileWork EXCEPT !.name = ""]}
    \cup {[ProfileWork EXCEPT !.limits.max_cpu_percent = v] : v \in PercentVals}
    \cup {[ProfileWork EXCEPT !.limits.max_ram_percent = v] : v \in PercentVals}
    \cup {[ProfileWork EXCEPT !.limits.max_temp = v] : v \in TempVals}

\* mutant: the upper ends of the ranges are excluded
Profile_validate_exclusive(p) ==
    /\ p.name # ""
    /\ p.limits.max_cpu_percent >= 0 /\ p.limits.max_cpu_percent < 100
    /\ p.limits.max_ram_percent >= 0 /\ p.limits.max_ram_percent < 100
    /\ p.limits.max_temp >= 0 /\ p.limits.max_temp < 120

\* Profile::validate
Profile_validate(p) ==
    /\ ~(p.name = "")
    /\ p.limits.max_cpu_percent >= 0 /\ p.limits.max_cpu_percent <= 100
    /\ p.limits.max_ram_percent >= 0 /\ p.limits.max_ram_percent <= 100
    /\ p.limits.max_temp >= 0 /\ p.limits.max_temp <= 120

\* an entry of the profiles directory: whether it is a file named *.yaml,
\* whether serde_yaml parses it, and the profile it then describes
ProfileFiles ==
    { [yaml |-> FALSE, parses |-> TRUE, profile |-> ProfileWork],
      [yaml |-> TRUE, parses |-> FALSE, profile |-> ProfileWork] }
    \cup { [yaml |-> TRUE, parses |-> TRUE, profile |-> p] : p \in ProfileCandidates }

\* mutant: a parsed profile is returned without being validated
Profile_load_from_file_unvalidated(file) ==
    IF file.parses THEN Some(file.profile) ELSE None

\* Profile::load_from_file: Some(profile) for Ok, None for Err
Profile_load_from_file(file) ==
    IF file.parses /\ Profile_validate(file.profile) THEN Some(file.profile) ELSE None

\* the stems of the files a profiles directory may hold
Stems == { <<"normal">>, <<"coding">>, <<"coding", " ">> }

\* the profiles directories whose entries are of the given kinds, by stem
DirsOf(files) ==
    UNION { [S -> files] : S \in {T \in SUBSET Stems : Cardinality(T) <= MaxFiles} }

\* a profiles directory
Dirs == DirsOf(ProfileFiles)

\* a file that fails validation and a file that loads
StoreFiles ==
    { [yaml |-> TRUE, parses |-> TRUE, profile |-> [ProfileWork EXCEPT !.name = ""]],
      [yaml |-> TRUE, parses |-> TRUE, profile |-> ProfileWork] }

\* the profiles directories the store is run over
StoreDirs == DirsOf(StoreFiles)

\* the names a caller may ask for: the stems, and one that no file has
RequestNames == Stems \cup { <<"gaming">> }

\* ProfileManager::new, the keys it inserts
loaded_keys(dir) ==
    { k \in DOMAIN dir : dir[k].yaml /\ is_some(Profile_load_from_file(dir[k])) }

\* whether the configuration directory is found and its profiles directory
\* listed, or default_config_dir()?, fs::read_dir()? or entry? returns the error
ListingOutcomes == {"listed", "failed"}

\* mutant: without a profile "normal" the manager starts on that name anyway
ProfileManager_new_always_normal(dir, listing) ==
    IF listing # "listed" \/ loaded_keys(dir) = {}
    THEN { [result |-> "Err", profiles |-> <<>>, current_profile |-> <<>>] }
    ELSE { [ result |-> "Ok",
             profiles |-> [k \in loaded_keys(dir) |-> dir[k].profile],
             current_profile |-> <<"normal">> ] }

\* ProfileManager::new over a directory: every manager it may return (the
\* first key of a HashMap is any of its keys)
ProfileManager_new(dir, listing) ==
    IF listing # "listed" \/ loaded_keys(dir) = {}
    THEN { [result |-> "Err", profiles |-> <<>>, current_profile |-> <<>>] }
    ELSE { [ result |-> "Ok",
             profiles |-> [k \in loaded_keys(dir) |-> Profile_load_from_file(dir[k])[1]],
             current_profile |-> c ] :
           c \in IF <<"normal">> \in loaded_keys(dir)
                 THEN { <<"normal">> } ELSE loaded_keys(dir) }

\* what fs::write does to the .state file: it writes the text, or it cannot
\* open the file, or it fails after it has truncated it
WriteOutcomes == {"written", "denied", "truncated"}

\* ProfileManager::save_state
save_state(pm, state_file, write) ==
    [ result |-> IF write = "written" THEN "Ok" ELSE "Err",
      state_file |-> CASE write = "written" -> Some(pm.current_profile)
                       [] write = "denied" -> state_file
                       [] OTHER -> Some(<<>>) ]

\* ProfileManager::list_names: set_mode only asks whether it contains a name
list_names(pm) == DOMAIN pm.profiles

\* ProfileManager::current: Some(profile) for Ok, None for Err
current(pm) ==
    IF pm.current_profile \in DOMAIN pm.profiles
    THEN Some(pm.profiles[pm.current_profile]) ELSE None

\* mutant: the name is checked after it has been made current
switch_to_unchecked(pm, state_file, profile_name, write) ==
    LET pm1 == [pm EXCEPT !.current_profile = profile_name]
        saved == save_state(pm1, state_file, write)
    IN [ result |-> saved.result, pm |-> pm1, state_file |-> saved.state_file ]

\* ProfileManager::switch_to
switch_to(pm, state_file, profile_name, write) ==
    IF ~(profile_name \in DOMAIN pm.profiles)
    THEN [ result |-> "Err", pm |-> pm, state_file |-> state_file ]
    ELSE LET pm1 == [pm EXCEPT !.current_profile = profile_name]
             saved == save_state(pm1, state_file, write)
         IN [ result |-> saved.result, pm |-> pm1, state_file |-> saved.state_file ]

\* mutant: the saved name is made current whether or not it is loaded
load_state_unchecked(pm, state_file, readable) ==
    IF is_some(state_file)
    THEN IF ~readable THEN [result |-> "Err", pm |-> pm]
         ELSE [ result |-> "Ok", pm |-> [pm EXCEPT !.current_profile = trim(state_file[1])] ]
    ELSE [result |-> "Ok", pm |-> pm]

\* ProfileManager::load_state; readable is whether fs::read_to_string succeeds
load_state(pm, state_file, readable) ==
    IF is_some(state_file)
    THEN IF ~readable THEN [result |-> "Err", pm |-> pm]
         ELSE LET saved_profile == trim(state_file[1])
              IN IF saved_profile \in DOMAIN pm.profiles
                 THEN [ result |-> "Ok",
                        pm |-> [pm EXCEPT !.current_profile = saved_profile] ]
                 ELSE [result |-> "Ok", pm |-> pm]
    ELSE [result |-> "Ok", pm |-> pm]

(* ---------------------------- dbus_server.rs --------------------------- *)
\* KernDBusInterface::set_mode: it holds the profile manager and no engine
set_mode(pm, state_file, profile_name, write) ==
    IF ~(profile_name \in list_names(pm))
    THEN [ result |-> "Err", pm |-> pm, state_file |-> state_file ]
    ELSE switch_to(pm, state_file, profile_name, write)

\* Iterator::rev over the lines
RECURSIVE rev(_)
rev(lines) ==
    IF lines = <<>> THEN <<>> ELSE Append(rev(Tail(lines)), Head(lines))

\* Iterator::take(n)
take(lines, n) == SubSeq(lines, 1, IF n < Len(lines) THEN n ELSE Len(lines))

\* mutant: a positive limit cuts the lines in file order
get_process_kill_log_head(lines, limit) ==
    LET lim == IF limit > 0 THEN limit ELSE 0
    IN IF lim = 0 THEN lines ELSE take(lines, lim)

\* KernDBusInterface::get_process_kill_log on the lines of the log file
get_process_kill_log(lines, limit) ==
    LET lim == IF limit > 0 THEN limit ELSE 0
    IN IF lim = 0 THEN lines ELSE take(rev(lines), lim)

(* ---------------------------- killer.rs -------------------------------- *)
critical_processes ==
    << "systemd", "gnome-shell", "Xwayland", "X", "Xvfb",
       "dbus-daemon", "bluetoothd", "wpa_supplicant",
       "NetworkManager", "ModemManager", "upowerd",
       "systemd-logind", "login", "sshd", "sudo" >>

\* mutant: the scan of the list returns after its first entry
is_protected_first_only(name, protected_list) ==
    protected_list # <<>> /\ protected_list[1] = name

is_protected(name, protected_list) ==
    \E i \in DOMAIN protected_list : protected_list[i] = name

is_critical_process(name) ==
    \E i \in DOMAIN critical_processes : critical_processes[i] = name

\* What the OS answers when a signal is sent to a pid:
\*   "alive"  the signal is delivered; the process ends within the call
\*   "denied" the signal is refused (EPERM)
\*   "dead"   the process was ended by an earlier call (ESRCH)
\* A process that exits by itself after it was listed answers ESRCH like a
\* dead one: Ok in graceful mode as for "alive", Err in forced mode as for
\* "denied", so those two fates already produce every outcome.
Fates == {"alive", "denied"}

no_such_process(st) == st = "dead"

\* kill_process(pid, graceful) -> Ok | Err
\*   graceful: SIGTERM; ESRCH is Ok, any other error is Err; an alive process
\*             exits during the polls or is sent SIGKILL, both Ok
\*   forced:   SIGKILL; any error, ESRCH included, is Err
kill_process(st, graceful) ==
    IF graceful
    THEN IF no_such_process(st) THEN "Ok"
         ELSE IF st = "denied" THEN "Err"
         ELSE "Ok"
    ELSE IF st = "alive" THEN "Ok" ELSE "Err"

\* kill_process signal by signal. A target is "running", "exited", or
\* "denied" (running, and the caller may not signal it); nix's kill answers
\* Ok, ESRCH ("No such process") or EPERM.
ProcStates == {"running", "exited", "denied"}

signal_answer(proc) ==
    CASE proc = "running" -> "Ok"
      [] proc = "exited"  -> "ESRCH"
      [] OTHER            -> "EPERM"

\* for _ in 0..50, each iteration after thread::sleep(100 ms)
poll_count == 50
poll_interval_ms == 100

\* the first SIGTERM: delivered, the wait begins; ESRCH is Ok; else Err
sigterm_outcome(answer) ==
    IF answer = "Ok" THEN "wait"
    ELSE IF answer = "ESRCH" THEN "Ok" ELSE "Err"

\* mutant: a poll that finds the process gone goes on polling
poll_outcome_ignores_exit(answer) == "continue"

\* mutant: a poll that fails for any reason ends the wait
poll_outcome_any_error(answer) == IF answer = "Ok" THEN "continue" ELSE "Ok"

\* a poll's SIGTERM: ESRCH returns Ok, anything else continues the loop
poll_outcome(answer) == IF answer = "ESRCH" THEN "Ok" ELSE "continue"

\* mutant: the wait ends after the first poll
polls_done_after_one(polls) == polls >= 1

\* the for loop has run all its iterations
polls_done(polls) == polls >= poll_count

\* mutant: a SIGKILL that finds no process counts as a success
sigkill_outcome_esrch_ok(answer) == IF answer = "EPERM" THEN "Err" ELSE "Ok"

\* SIGKILL: kill(..).map_err(..)?; Ok(())
sigkill_outcome(answer) == IF answer = "Ok" THEN "Ok" ELSE "Err"

\* the process's state after kill_process returned
after_kill(st) == IF st = "alive" THEN "dead" ELSE st

\* log_kill_action: the record appended to kern.log
log_kill_action(t, pid, name, success, graceful) ==
    [ timestamp |-> t, pid |-> pid, name |-> name, graceful |-> graceful,
      status |-> IF success THEN "ok" ELSE "failed" ]

(* ---------------------------- monitor.rs ------------------------------- *)
\* process names the OS may show: critical and globally protected, globally
\* protected only, protected by a profile only, and protected by nothing
Names == {"systemd", "kern", "bash", "firefox"}
MemoryGb == {1, 2}
\* global_cpu_usage and memory_percentage: on and above the default limits
CpuReadings == {default_max_cpu, 95}
MemReadings == {default_max_ram, 90}
\* a thermal zone's reading, or None when no zone can be read
SensorReadings ==
    {None, Some(60), Some(default_temp_warning), Some(80),
     Some(default_temp_critical), Some(90)}

\* the OS process table in iteration order; the pid is the position
ProcessTables ==
    UNION { [1..n -> [name : Names, memory_gb : MemoryGb]] : n \in 0..MaxProcs }

\* what the OS shows when it is sampled
OsStates ==
    [ cpu : CpuReadings, mem : MemReadings, sensor : SensorReadings,
      table : ProcessTables ]

\* mutant: no readable zone yields a reading above every threshold
get_cpu_temperature_hot(sensor) == IF is_some(sensor) THEN sensor[1] ELSE 121

\* get_cpu_temperature().unwrap_or(0.0): no readable zone yields 0
get_cpu_temperature(sensor) == IF is_some(sensor) THEN sensor[1] ELSE 0

\* one ProcessInfo per table entry
process_infos(table) ==
    [ i \in DOMAIN table |->
        [pid |-> i, name |-> table[i].name, memory_gb |-> table[i].memory_gb] ]

\* Vec::sort_by(|a, b| b.memory_gb.partial_cmp(&a.memory_gb)): a stable sort,
\* descending by memory
RECURSIVE insert_desc(_, _, _)
insert_desc(sorted, p, j) ==
    IF j > Len(sorted) THEN Append(sorted, p)
    ELSE IF sorted[j].memory_gb < p.memory_gb
         THEN SubSeq(sorted, 1, j - 1) \o <<p>> \o SubSeq(sorted, j, Len(sorted))
         ELSE insert_desc(sorted, p, j + 1)

RECURSIVE sort_from(_, _, _)
sort_from(processes, i, sorted) ==
    IF i > Len(processes) THEN sorted
    ELSE sort_from(processes, i + 1, insert_desc(sorted, processes[i], 1))

sort_by_memory_desc(processes) == sort_from(processes, 1, <<>>)

get_system_stats(os) ==
    [ cpu_usage         |-> os.cpu,
      memory_percentage |-> os.mem,
      temperature       |-> get_cpu_temperature(os.sensor),
      top_processes     |-> sort_by_memory_desc(process_infos(os.table)) ]

NoStats ==
    [ cpu_usage |-> 0, memory_percentage |-> 0, temperature |-> 0,
      top_processes |-> <<>> ]

(* ---------------------------- notify.rs -------------------------------- *)
min_interval_between_notifications == 3
emergency_notification_interval == 5

\* NotificationManager::new
NotificationManager_new(ncfg) ==
    [ enabled |-> ncfg.enabled,
      show_on_kill |-> ncfg.show_on_kill,
      show_on_profile_switch |-> ncfg.show_on_profile_switch,
      last_kill_notification |-> None,
      last_emergency_notification |-> None,
      last_warning_notification |-> None ]

\* last.elapsed() < interval, for a timestamp that is set
rate_limited(last, t, interval) == is_some(last) /\ t - last[1] < interval

\* Each notify_* takes the manager and the notifications sent so far (w.nm,
\* w.notes) at time t and yields them after the call.
notify_process_killed(w, t) ==
    IF ~w.nm.enabled \/ ~w.nm.show_on_kill THEN w
    ELSE IF rate_limited(w.nm.last_kill_notification, t,
                         min_interval_between_notifications) THEN w
    ELSE [w EXCEPT !.notes = Append(@, "kill"),
                   !.nm.last_kill_notification = Some(t)]

\* mutant: the emergency gate reads the timestamp of the kill notifications
notify_emergency_mode_kill_stamp(w, t) ==
    IF ~w.nm.enabled THEN w
    ELSE IF rate_limited(w.nm.last_kill_notification, t,
                         emergency_notification_interval) THEN w
    ELSE [w EXCEPT !.notes = Append(@, "emergency"),
                   !.nm.last_emergency_notification = Some(t)]

notify_emergency_mode(w, t) ==
    IF ~w.nm.enabled THEN w
    ELSE IF rate_limited(w.nm.last_emergency_notification, t,
                         emergency_notification_interval) THEN w
    ELSE [w EXCEPT !.notes = Append(@, "emergency"),
                   !.nm.last_emergency_notification = Some(t)]

notify_emergency_mode_resolved(w, t) ==
    IF ~w.nm.enabled THEN w
    ELSE [w EXCEPT !.notes = Append(@, "resolved")]

notify_resource_limit_exceeded(w, t, resource_type) ==
    IF ~w.nm.enabled THEN w
    ELSE IF rate_limited(w.nm.last_warning_notification, t,
                         min_interval_between_notifications) THEN w
    ELSE [w EXCEPT !.notes = Append(@, resource_type),
                   !.nm.last_warning_notification = Some(t)]

notify_temperature_warning(w, t) ==
    IF ~w.nm.enabled THEN w
    ELSE IF rate_limited(w.nm.last_warning_notification, t,
                         min_interval_between_notifications) THEN w
    ELSE [w EXCEPT !.notes = Append(@, "temperature"),
                   !.nm.last_warning_notification = Some(t)]

notify_profile_switched(w, t) ==
    IF ~w.nm.enabled \/ ~w.nm.show_on_profile_switch THEN w
    ELSE [w EXCEPT !.notes = Append(@, "profile")]

(* ---------------------------- enforcer.rs ------------------------------ *)
VARIABLES
    config,                 \* Enforcer.config
    current_profile,        \* Enforcer.current_profile
    emergency_mode,         \* Enforcer.emergency_mode
    emergency_since,        \* Enforcer.emergency_since
    last_enforcement,       \* Enforcer.last_enforcement
    notification_manager,   \* Enforcer.notification_manager
    now,                    \* Instant::now(), in seconds
    pc,                     \* the driver: "ready" to call the engine, or "called"
    last,                   \* what the last call of the engine read and did
    kp,                     \* one call of killer::kill_process, signal by signal
    notified,               \* what the last notify_* call did, and the deliveries
    store,                  \* profiles::ProfileManager, its directory and .state file
    bus,                    \* dbus_server: the RwLock and the requests in flight
    kill_log                \* kern.log and the last GetProcessKillLog call on it

vars == << config, current_profile, emergency_mode, emergency_since,
           last_enforcement, notification_manager, now, pc, last, kp, notified,
           store, bus, kill_log >>

\* A call works on w: the OS's answer per pid (status), the termination
\* attempts issued (attempts), the records appended to the kill log (logged),
\* the notification manager (nm), the notifications sent (notes) and the
\* callee's return value (ret).
World(status) ==
    [ status |-> status, attempts |-> <<>>, logged |-> <<>>,
      nm |-> notification_manager, notes |-> <<>>, ret |-> FALSE,
      killed_count |-> 0, passes |-> <<>> ]

\* match killer::kill_process(pid, self.config.kill_graceful)
Attempt(w, pid, name) ==
    [ pid |-> pid, name |-> name, graceful |-> config.kill_graceful,
      result |-> kill_process(w.status[pid], config.kill_graceful) ]

\* mutant: the pass gives up after its first failed attempt
RECURSIVE heaviest_loop_gives_up(_, _, _, _)
heaviest_loop_gives_up(procs, i, w, t) ==
    IF i > Len(procs) THEN [w EXCEPT !.ret = FALSE]
    ELSE LET process == procs[i] IN
         IF \/ is_protected(process.name, current_profile.protected)
            \/ is_protected(process.name, config.protected_processes)
            \/ is_critical_process(process.name)
         THEN heaviest_loop_gives_up(procs, i + 1, w, t)
         ELSE LET a == Attempt(w, process.pid, process.name)
                  ok == a.result = "Ok"
                  w1 == [w EXCEPT
                           !.status[process.pid] = after_kill(@),
                           !.attempts = Append(@, a),
                           !.logged = Append(@, log_kill_action(t, process.pid,
                                          process.name, ok, config.kill_graceful))]
              IN IF ok
                 THEN [notify_process_killed(w1, t) EXCEPT !.ret = TRUE]
                 ELSE [w1 EXCEPT !.ret = FALSE]

\* kill_heaviest_process, the loop over stats.top_processes from index i
RECURSIVE heaviest_loop(_, _, _, _)
heaviest_loop(procs, i, w, t) ==
    IF i > Len(procs) THEN [w EXCEPT !.ret = FALSE]
    ELSE LET process == procs[i] IN
         IF \/ is_protected(process.name, current_profile.protected)
            \/ is_protected(process.name, config.protected_processes)
            \/ is_critical_process(process.name)
         THEN heaviest_loop(procs, i + 1, w, t)
         ELSE LET a == Attempt(w, process.pid, process.name)
                  ok == a.result = "Ok"
                  w1 == [w EXCEPT
                           !.status[process.pid] = after_kill(@),
                           !.attempts = Append(@, a),
                           !.logged = Append(@, log_kill_action(t, process.pid,
                                          process.name, ok, config.kill_graceful))]
              IN IF ok
                 THEN [notify_process_killed(w1, t) EXCEPT !.ret = TRUE]
                 ELSE heaviest_loop(procs, i + 1, w1, t)

\* mutant: a pass that follows a delivered notification ends no process
kill_heaviest_process_unless_notified(stats, w, t) ==
    IF w.notes # <<>> THEN [w EXCEPT !.ret = FALSE]
    ELSE heaviest_loop(stats.top_processes, 1, w, t)

\* one selection pass; passes keeps the attempts of each pass apart
kill_heaviest_process(stats, w, t) ==
    LET r == heaviest_loop(stats.top_processes, 1, w, t)
    IN [r EXCEPT !.passes = Append(w.passes,
                     SubSeq(r.attempts, Len(w.attempts) + 1, Len(r.attempts)))]

\* mutant: the first failed attempt ends the loop, as a ? on the result would
RECURSIVE emergency_loop_stops_on_error(_, _, _, _)
emergency_loop_stops_on_error(procs, i, w, t) ==
    IF i > Len(procs) THEN w
    ELSE LET process == procs[i] IN
         IF \/ is_protected(process.name, current_profile.protected)
            \/ is_protected(process.name, config.protected_processes)
            \/ is_critical_process(process.name)
         THEN emergency_loop_stops_on_error(procs, i + 1, w, t)
         ELSE LET a == Attempt(w, process.pid, process.name)
                  ok == a.result = "Ok"
                  w1 == [w EXCEPT
                           !.status[process.pid] = after_kill(@),
                           !.attempts = Append(@, a),
                           !.logged = Append(@, log_kill_action(t, process.pid,
                                          process.name, ok, config.kill_graceful)),
                           !.killed_count = IF ok THEN @ + 1 ELSE @]
              IN IF ok THEN emergency_loop_stops_on_error(procs, i + 1, w1, t)
                 ELSE w1

\* handle_emergency_mode, the loop over stats.top_processes from index i
RECURSIVE emergency_loop(_, _, _, _)
emergency_loop(procs, i, w, t) ==
    IF i > Len(procs) THEN w
    ELSE LET process == procs[i] IN
         IF \/ is_protected(process.name, current_profile.protected)
            \/ is_protected(process.name, config.protected_processes)
            \/ is_critical_process(process.name)
         THEN emergency_loop(procs, i + 1, w, t)
         ELSE LET a == Attempt(w, process.pid, process.name)
                  ok == a.result = "Ok"
                  w1 == [w EXCEPT
                           !.status[process.pid] = after_kill(@),
                           !.attempts = Append(@, a),
                           !.logged = Append(@, log_kill_action(t, process.pid,
                                          process.name, ok, config.kill_graceful)),
                           !.killed_count = IF ok THEN @ + 1 ELSE @]
              IN emergency_loop(procs, i + 1, w1, t)

\* mutant: Emergency stops at the first process it ends, as a limit pass does
handle_emergency_mode_one(stats, w, t) == kill_heaviest_process(stats, w, t)

handle_emergency_mode(stats, w, t) ==
    LET w1 == emergency_loop(stats.top_processes, 1, [w EXCEPT !.killed_count = 0], t)
        w2 == IF w1.killed_count > 0 THEN notify_process_killed(w1, t) ELSE w1
    IN [w2 EXCEPT !.ret = w1.killed_count > 0]

\* the three conditions of enforce_resource_limits
cpu_limit_exceeded(stats) ==
    stats.cpu_usage > current_profile.limits.max_cpu_percent
ram_limit_exceeded(stats) ==
    stats.memory_percentage > current_profile.limits.max_ram_percent
\* mutant: the warning pass already runs at the warning threshold
temperature_warning_at_threshold(stats) ==
    /\ stats.temperature >= config.temperature.warning
    /\ stats.temperature < config.temperature.critical

\* mutant: the warning pass is bounded by the profile's max_temp and runs
\* only while the CPU is within the global limit
temperature_warning_by_limits(stats) ==
    /\ stats.temperature > config.temperature.warning
    /\ stats.temperature < current_profile.limits.max_temp
    /\ stats.cpu_usage <= config.limits.max_cpu_percent

temperature_warning(stats) ==
    /\ stats.temperature > config.temperature.warning
    /\ stats.temperature < config.temperature.critical

enforce_resource_limits(stats, w, t) ==
    LET w1 == IF cpu_limit_exceeded(stats)
              THEN kill_heaviest_process(stats,
                       notify_resource_limit_exceeded(w, t, "CPU"), t)
              ELSE [w EXCEPT !.ret = FALSE]
        a1 == w1.ret
        w2 == IF ram_limit_exceeded(stats)
              THEN kill_heaviest_process(stats,
                       notify_resource_limit_exceeded(w1, t, "RAM"), t)
              ELSE [w1 EXCEPT !.ret = FALSE]
        a2 == a1 \/ w2.ret
        w3 == IF temperature_warning(stats)
              THEN kill_heaviest_process(stats, notify_temperature_warning(w2, t), t)
              ELSE [w2 EXCEPT !.ret = FALSE]
    IN [w3 EXCEPT !.ret = a2 \/ w3.ret]

\* the two transitions of enforce_once
\* mutant: the exit test compares with the critical threshold
should_exit_emergency_at_critical(stats) ==
    stats.temperature < config.temperature.critical

\* mutant: the exit test includes the warning threshold
should_exit_emergency_at_warning(stats) ==
    stats.temperature <= config.temperature.warning

should_exit_emergency(stats) ==
    stats.temperature < config.temperature.warning
should_enter_emergency(stats) ==
    stats.temperature > config.temperature.critical

\* mutant: the exit leaves emergency_since as it was
enforce_once_keeps_since(stats, w, t) ==
    LET exits  == emergency_mode /\ should_exit_emergency(stats)
        mode1  == IF exits THEN FALSE ELSE emergency_mode
        since1 == emergency_since
        w1     == IF exits THEN notify_emergency_mode_resolved(w, t) ELSE w
        enters == ~mode1 /\ should_enter_emergency(stats)
        w2     == IF enters
                  THEN handle_emergency_mode(stats, notify_emergency_mode(w1, t), t)
                  ELSE IF mode1
                  THEN handle_emergency_mode(stats, w1, t)
                  ELSE enforce_resource_limits(stats, w1, t)
    IN [ emergency_mode   |-> IF enters THEN TRUE ELSE mode1,
         emergency_since  |-> IF enters THEN Some(t) ELSE since1,
         last_enforcement |-> t,
         exited |-> exits, entered |-> enters, w |-> w2 ]

\* mutant: the branch after the exit is chosen on the mode the cycle started in
enforce_once_stale_mode(stats, w, t) ==
    LET exits  == emergency_mode /\ should_exit_emergency(stats)
        mode1  == IF exits THEN FALSE ELSE emergency_mode
        since1 == IF exits THEN None ELSE emergency_since
        w1     == IF exits THEN notify_emergency_mode_resolved(w, t) ELSE w
        enters == ~mode1 /\ should_enter_emergency(stats)
        w2     == IF enters
                  THEN handle_emergency_mode(stats, notify_emergency_mode(w1, t), t)
                  ELSE IF emergency_mode
                  THEN handle_emergency_mode(stats, w1, t)
                  ELSE enforce_resource_limits(stats, w1, t)
    IN [ emergency_mode   |-> IF enters THEN TRUE ELSE mode1,
         emergency_since  |-> IF enters THEN Some(t) ELSE since1,
         last_enforcement |-> t,
         exited |-> exits, entered |-> enters, w |-> w2 ]

\* mutant: a reading above critical enters Emergency again while in Emergency
enforce_once_enters_again(stats, w, t) ==
    LET exits  == emergency_mode /\ should_exit_emergency(stats)
        mode1  == IF exits THEN FALSE ELSE emergency_mode
        since1 == IF exits THEN None ELSE emergency_since
        w1     == IF exits THEN notify_emergency_mode_resolved(w, t) ELSE w
        enters == should_enter_emergency(stats)
        w2     == IF enters
                  THEN handle_emergency_mode(stats, notify_emergency_mode(w1, t), t)
                  ELSE IF mode1
                  THEN handle_emergency_mode(stats, w1, t)
                  ELSE enforce_resource_limits(stats, w1, t)
    IN [ emergency_mode   |-> IF enters THEN TRUE ELSE mode1,
         emergency_since  |-> IF enters THEN Some(t) ELSE since1,
         last_enforcement |-> t,
         exited |-> exits, entered |-> enters, w |-> w2 ]

\* enforce_once after a successful get_system_stats: the engine's fields and
\* the world after the call
enforce_once(stats, w, t) ==
    LET exits  == emergency_mode /\ should_exit_emergency(stats)
        mode1  == IF exits THEN FALSE ELSE emergency_mode
        since1 == IF exits THEN None ELSE emergency_since
        w1     == IF exits THEN notify_emergency_mode_resolved(w, t) ELSE w
        enters == ~mode1 /\ should_enter_emergency(stats)
        w2     == IF enters
                  THEN handle_emergency_mode(stats, notify_emergency_mode(w1, t), t)
                  ELSE IF mode1
                  THEN handle_emergency_mode(stats, w1, t)
                  ELSE enforce_resource_limits(stats, w1, t)
    IN [ emergency_mode   |-> IF enters THEN TRUE ELSE mode1,
         emergency_since  |-> IF enters THEN Some(t) ELSE since1,
         last_enforcement |-> t,
         exited |-> exits, entered |-> enters, w |-> w2 ]

\* find_processes_by_name: the pids the OS lists under that exact name
RECURSIVE find_from(_, _, _, _)
find_from(name, table, status, i) ==
    IF i > Len(table) THEN <<>>
    ELSE IF table[i].name = name /\ status[i] # "dead"
         THEN <<i>> \o find_from(name, table, status, i + 1)
         ELSE find_from(name, table, status, i + 1)

\* mutant: only the first match is returned
find_processes_by_name_first(name, table, status) ==
    LET found == find_from(name, table, status, 1)
    IN IF found = <<>> THEN <<>> ELSE <<found[1]>>

find_processes_by_name(name, table, status) == find_from(name, table, status, 1)

\* switch_profile, the inner loop over the pids found for proc_name
RECURSIVE activate_pids(_, _, _, _, _)
activate_pids(proc_name, pids, j, w, t) ==
    IF j > Len(pids) THEN w
    ELSE IF is_critical_process(proc_name)
         THEN activate_pids(proc_name, pids, j + 1, w, t)
         ELSE LET a == Attempt(w, pids[j], proc_name)
                  ok == a.result = "Ok"
                  w1 == [w EXCEPT
                           !.status[pids[j]] = after_kill(@),
                           !.attempts = Append(@, a),
                           !.logged = IF ok
                                      THEN Append(@, log_kill_action(t, pids[j],
                                               proc_name, TRUE, config.kill_graceful))
                                      ELSE @]
              IN activate_pids(proc_name, pids, j + 1, w1, t)

\* switch_profile, the outer loop over new_profile.kill_on_activate
RECURSIVE activate_names(_, _, _, _, _)
activate_names(names, k, table, w, t) ==
    IF k > Len(names) THEN w
    ELSE activate_names(names, k + 1, table,
             activate_pids(names[k],
                           find_processes_by_name(names[k], table, w.status),
                           1, w, t),
             t)

\* mutant: the switch leaves emergency_since as it was
switch_profile_keeps_since(new_profile, table, w, t) ==
    LET w1 == activate_names(new_profile.kill_on_activate, 1, table, w, t)
    IN [ current_profile  |-> new_profile,
         emergency_mode   |-> FALSE,
         emergency_since  |-> emergency_since,
         w |-> notify_profile_switched(w1, t) ]

switch_profile(new_profile, table, w, t) ==
    LET w1 == activate_names(new_profile.kill_on_activate, 1, table, w, t)
    IN [ current_profile  |-> new_profile,
         emergency_mode   |-> FALSE,
         emergency_since  |-> None,
         w |-> notify_profile_switched(w1, t) ]

(* ---------------------------- the state machine ------------------------ *)
NoCall ==
    [ op |-> "none", result |-> "Ok", table |-> <<>>, stats |-> NoStats,
      pre_profile |-> Profile_default, pre_emergency |-> FALSE, pre_since |-> None,
      pre_last_enforcement |-> 0, new_profile |-> Profile_default,
      exited |-> FALSE, entered |-> FALSE,
      attempts |-> <<>>, logged |-> <<>>, notes |-> <<>>,
      twin |-> None, file |-> None, passes |-> <<>>, sensor |-> None,
      pre_manager |-> NotificationManager_new(
                          [enabled |-> FALSE, show_on_kill |-> FALSE,
                           show_on_profile_switch |-> FALSE]) ]

\* kill_process before it is called
KillIdle ==
    [ pc |-> "idle", graceful |-> FALSE, proc0 |-> "running", proc |-> "running",
      polls |-> 0, elapsed_ms |-> 0, sigterm |-> 0, sigkill |-> 0,
      sigkill_at |-> None, found_exited |-> FALSE, self_exit |-> FALSE,
      poll_denied |-> FALSE,
      result |-> "none" ]

\* the notification categories, each with the time of its last delivery
Categories == {"kill", "warning", "emergency", "resolved", "profile"}

NoNotification ==
    [ cat |-> "none", time |-> 0, delivered |-> FALSE, kept |-> TRUE,
      prev |-> None, delivered_at |-> [c \in Categories |-> None] ]

\* the profile manager before ProfileManager::new has returned one
NoManager == [profiles |-> <<>>, current_profile |-> <<>>]

NoStoreCall ==
    [ op |-> "none", result |-> "Ok", arg |-> <<>>, dir |-> <<>>,
      listing |-> "listed", write |-> "written", readable |-> TRUE,
      pre |-> NoManager, pre_state_file |-> None ]

\* no manager constructed, no .state file in the configuration directory
NoStore ==
    [ up |-> FALSE, pm |-> NoManager, state_file |-> None, call |-> NoStoreCall ]

\* the requests the listener may have in flight
Requests == 1 .. MaxRequests

\* a request that has not arrived
IdleRequest ==
    [ pc |-> "idle", kind |-> "none", arg |-> <<>>, write |-> "written",
      observed |-> None, result |-> "none" ]

\* KernDBusInterface::new: Arc<RwLock<ProfileManager>>, nobody holds the lock
NoBus ==
    [ readers |-> {}, writer |-> {}, req |-> [i \in Requests |-> IdleRequest],
      last_ok |-> None ]

\* an empty kill log that nobody has read
NoKillLog ==
    [ lines |-> <<>>, op |-> "none", limit |-> 0, result |-> "Ok",
      returned |-> <<>>, orders |-> {} ]

\* Enforcer::new, as main constructs it
Init ==
    /\ config \in KernConfig_load
    /\ current_profile = InitialProfile(config)
    /\ emergency_mode = FALSE
    /\ emergency_since = None
    /\ last_enforcement = 0
    /\ notification_manager = NotificationManager_new(config.notifications)
    /\ now = 0
    /\ pc = "ready"
    /\ last = NoCall
    /\ kp = KillIdle
    /\ notified = NoNotification
    /\ store = NoStore
    /\ bus = NoBus
    /\ kill_log = NoKillLog

CallRecord(op) ==
    [ NoCall EXCEPT !.op = op,
                    !.pre_profile = current_profile,
                    !.pre_emergency = emergency_mode,
                    !.pre_since = emergency_since,
                    !.pre_last_enforcement = last_enforcement,
                    !.pre_manager = notification_manager ]

\* enforce_once with a sample of the OS; fate is how each listed process
\* answers a signal
EnforceOnceOver(samples) ==
    /\ pc = "ready"
    /\ \E os \in samples :
       \E fate \in [DOMAIN os.table -> Fates] :
       \E stats \in {get_system_stats(os)} :
       \E r \in {enforce_once(stats, World(fate), now)} :
             /\ emergency_mode' = r.emergency_mode
             /\ emergency_since' = r.emergency_since
             /\ last_enforcement' = r.last_enforcement
             /\ notification_manager' = r.w.nm
             /\ last' = [ CallRecord("enforce") EXCEPT
                            !.table = os.table, !.sensor = os.sensor, !.stats = stats,
                            !.exited = r.exited, !.entered = r.entered,
                            !.attempts = r.w.attempts, !.logged = r.w.logged,
                            !.notes = r.w.notes, !.passes = r.w.passes ]
    /\ pc' = "called"
    /\ UNCHANGED << config, current_profile, now, kp, notified, store, bus, kill_log >>

EnforceOnce == EnforceOnceOver(OsStates)

\* mutant: the failed cycle still records the time it ran at
EnforceOnceFetchFailed_stamps ==
    /\ pc = "ready"
    /\ last' = [CallRecord("enforce") EXCEPT !.result = "Err"]
    /\ last_enforcement' = now
    /\ pc' = "called"
    /\ UNCHANGED << config, current_profile, emergency_mode, emergency_since,
                    notification_manager, now, kp, notified, store, bus, kill_log >>

\* enforce_once when get_system_stats()? returns the error
EnforceOnceFetchFailed ==
    /\ pc = "ready"
    /\ last' = [CallRecord("enforce") EXCEPT !.result = "Err"]
    /\ pc' = "called"
    /\ UNCHANGED << config, current_profile, emergency_mode, emergency_since,
                    last_enforcement, notification_manager, now, kp, notified, store, bus, kill_log >>

\* switch_profile(new_profile) with the OS process table it looks names up in
SwitchProfile ==
    /\ pc = "ready"
    /\ \E new_profile \in Profiles(config) :
       \E table \in ProcessTables :
       \E fate \in [DOMAIN table -> Fates] :
       \E r \in {switch_profile(new_profile, table, World(fate), now)} :
             /\ current_profile' = r.current_profile
             /\ emergency_mode' = r.emergency_mode
             /\ emergency_since' = r.emergency_since
             /\ notification_manager' = r.w.nm
             /\ last' = [ CallRecord("switch") EXCEPT
                            !.table = table, !.new_profile = new_profile,
                            !.attempts = r.w.attempts, !.logged = r.w.logged,
                            !.notes = r.w.notes, !.passes = r.w.passes ]
    /\ pc' = "called"
    /\ UNCHANGED << config, last_enforcement, now, kp, notified, store, bus, kill_log >>

\* mutant: the loop goes on only after a cycle that returned Ok
Sleep_after_ok_only ==
    /\ pc = "called"
    /\ last.result = "Ok"
    /\ pc' = "ready"
    /\ now' = IF now + config.monitor_interval <= MaxClock
              THEN now + config.monitor_interval ELSE MaxClock
    /\ last' = NoCall
    /\ UNCHANGED << config, current_profile, emergency_mode, emergency_since,
                    last_enforcement, notification_manager, kp, notified, store, bus, kill_log >>

\* the driver between two calls: run_enforcer_loop's thread::sleep(interval)
Sleep ==
    /\ pc = "called"
    /\ pc' = "ready"
    /\ now' = IF now + config.monitor_interval <= MaxClock
              THEN now + config.monitor_interval ELSE MaxClock
    /\ last' = NoCall
    /\ UNCHANGED << config, current_profile, emergency_mode, emergency_since,
                    last_enforcement, notification_manager, kp, notified, store, bus, kill_log >>

Next == EnforceOnce \/ EnforceOnceFetchFailed \/ SwitchProfile \/ Sleep

Spec == Init /\ [][Next]_vars

(* ---------------------------- run_enforcer_loop ------------------------ *)
\* the loop calls enforce_once and sleeps, and nothing else
NextLoop == EnforceOnce \/ EnforceOnceFetchFailed \/ Sleep

SpecLoop == Init /\ [][NextLoop]_vars

(* ---------------------------- two engines, two notification gates ------ *)
\* Notification managers an engine may hold at time t besides its own: ones
\* that deliver (enabled, by category or not), with every timestamp unset or
\* every timestamp just set, so that each rate limit is open or closed.
TwinManagers(t) ==
    { [ NotificationManager_new([enabled |-> TRUE, show_on_kill |-> k,
                                 show_on_profile_switch |-> k])
        EXCEPT !.last_kill_notification = s,
               !.last_emergency_notification = s,
               !.last_warning_notification = s ] :
        k \in BOOLEAN, s \in {None, Some(t)} }

\* what enforce_once leaves in the engine and does to the processes
EnforceView(r) ==
    [ emergency_mode |-> r.emergency_mode, emergency_since |-> r.emergency_since,
      last_enforcement |-> r.last_enforcement, exited |-> r.exited,
      entered |-> r.entered, attempts |-> r.w.attempts, logged |-> r.w.logged,
      status |-> r.w.status, ret |-> r.w.ret, result |-> "Ok" ]

\* what switch_profile leaves in the engine and does to the processes
SwitchView(r) ==
    [ current_profile |-> r.current_profile, emergency_mode |-> r.emergency_mode,
      emergency_since |-> r.emergency_since, attempts |-> r.w.attempts,
      logged |-> r.w.logged, status |-> r.w.status, result |-> "Ok" ]

\* enforce_once run by this engine and, on the same sample and from the same
\* fields, by engines that hold another notification manager
EnforceOnceTwin ==
    /\ pc = "ready"
    /\ \E os \in OsStates :
       \E fate \in [DOMAIN os.table -> Fates] :
       \E stats \in {get_system_stats(os)} :
       \E r \in {enforce_once(stats, World(fate), now)} :
       \E twins \in {{ enforce_once(stats, [World(fate) EXCEPT !.nm = m], now) :
                         m \in TwinManagers(now) }} :
             /\ emergency_mode' = r.emergency_mode
             /\ emergency_since' = r.emergency_since
             /\ last_enforcement' = r.last_enforcement
             /\ notification_manager' = r.w.nm
             /\ last' = [ CallRecord("enforce") EXCEPT
                            !.table = os.table, !.sensor = os.sensor, !.stats = stats,
                            !.exited = r.exited, !.entered = r.entered,
                            !.attempts = r.w.attempts, !.logged = r.w.logged,
                            !.notes = r.w.notes, !.passes = r.w.passes,
                            !.twin = Some([ own |-> EnforceView(r),
                                            others |-> {EnforceView(x) : x \in twins},
                                            notes |-> {x.w.notes : x \in twins} ]) ]
    /\ pc' = "called"
    /\ UNCHANGED << config, current_profile, now, kp, notified, store, bus, kill_log >>

\* switch_profile run by this engine and by engines that hold another
\* notification manager
SwitchProfileTwin ==
    /\ pc = "ready"
    /\ \E new_profile \in Profiles(config) :
       \E table \in ProcessTables :
       \E fate \in [DOMAIN table -> Fates] :
       \E r \in {switch_profile(new_profile, table, World(fate), now)} :
       \E twins \in {{ switch_profile(new_profile, table,
                                      [World(fate) EXCEPT !.nm = m], now) :
                         m \in TwinManagers(now) }} :
             /\ current_profile' = r.current_profile
             /\ emergency_mode' = r.emergency_mode
             /\ emergency_since' = r.emergency_since
             /\ notification_manager' = r.w.nm
             /\ last' = [ CallRecord("switch") EXCEPT
                            !.table = table, !.new_profile = new_profile,
                            !.attempts = r.w.attempts, !.logged = r.w.logged,
                            !.notes = r.w.notes, !.passes = r.w.passes,
                            !.twin = Some([ own |-> SwitchView(r),
                                            others |-> {SwitchView(x) : x \in twins},
                                            notes |-> {x.w.notes : x \in twins} ]) ]
    /\ pc' = "called"
    /\ UNCHANGED << config, last_enforcement, now, kp, notified, store, bus, kill_log >>

NextTwin == EnforceOnceTwin \/ EnforceOnceFetchFailed \/ SwitchProfileTwin \/ Sleep

SpecTwin == Init /\ [][NextTwin]_vars

(* ---------------------------- kill_process, step by step --------------- *)
\* Enforcer::new has run: the call takes its mode from config.kill_graceful
\* the call up to its first signal: SIGTERM when graceful, else SIGKILL
KillProcessCall ==
    /\ kp.pc = "idle"
    /\ \E proc \in ProcStates :
       \E answer \in {signal_answer(proc)} :
          kp' = IF config.kill_graceful
                THEN LET out == sigterm_outcome(answer) IN
                     [ kp EXCEPT
                         !.pc = IF out = "wait" THEN "polling" ELSE "returned",
                         !.graceful = TRUE, !.proc0 = proc, !.proc = proc,
                         !.sigterm = 1,
                         !.found_exited = answer = "ESRCH",
                         !.result = IF out = "wait" THEN "none" ELSE out ]
                ELSE [ kp EXCEPT
                         !.pc = "returned",
                         !.graceful = FALSE, !.proc0 = proc,
                         !.proc = IF answer = "Ok" THEN "exited" ELSE proc,
                         !.sigkill = 1, !.sigkill_at = Some(0),
                         !.result = sigkill_outcome(answer) ]
    /\ UNCHANGED << config, current_profile, emergency_mode, emergency_since,
                    last_enforcement, notification_manager, now, pc, last,
                    notified, store, bus, kill_log >>

\* one iteration of the wait: sleep 100 ms, during which the target may exit
\* or change the user it runs as, then SIGTERM again
KillProcessPoll ==
    /\ kp.pc = "polling"
    /\ ~polls_done(kp.polls)
    /\ \E exits \in BOOLEAN :
       \E proc \in (IF exits THEN {"exited"} ELSE {"running", "denied"}) :
       \E answer \in {signal_answer(proc)} :
       \E out \in {poll_outcome(answer)} :
          kp' = [ kp EXCEPT
                    !.poll_denied = @ \/ answer = "EPERM",
                    !.pc = IF out = "Ok" THEN "returned" ELSE "polling",
                    !.proc = proc,
                    !.polls = @ + 1,
                    !.elapsed_ms = @ + poll_interval_ms,
                    !.sigterm = @ + 1,
                    !.found_exited = answer = "ESRCH",
                    !.self_exit = @ \/ exits,
                    !.result = IF out = "Ok" THEN "Ok" ELSE "none" ]
    /\ UNCHANGED << config, current_profile, emergency_mode, emergency_since,
                    last_enforcement, notification_manager, now, pc, last,
                    notified, store, bus, kill_log >>

\* after the last iteration: SIGKILL; the target may have exited since the
\* last poll
KillProcessEscalate ==
    /\ kp.pc = "polling"
    /\ polls_done(kp.polls)
    /\ \E exits \in BOOLEAN :
       \E proc \in {IF exits THEN "exited" ELSE kp.proc} :
       \E answer \in {signal_answer(proc)} :
          kp' = [ kp EXCEPT
                    !.pc = "returned",
                    !.proc = IF answer = "Ok" THEN "exited" ELSE proc,
                    !.sigkill = @ + 1,
                    !.sigkill_at = Some(kp.elapsed_ms),
                    !.self_exit = @ \/ exits,
                    !.result = sigkill_outcome(answer) ]
    /\ UNCHANGED << config, current_profile, emergency_mode, emergency_since,
                    last_enforcement, notification_manager, now, pc, last,
                    notified, store, bus, kill_log >>

NextKill == KillProcessCall \/ KillProcessPoll \/ KillProcessEscalate

SpecKill == Init /\ [][NextKill]_vars

(* ---------------------------- the notification gate -------------------- *)
\* every NotificationConfig a configuration file may carry
AllNotificationConfigs ==
    [ enabled : BOOLEAN, show_on_kill : BOOLEAN, show_on_profile_switch : BOOLEAN ]

\* Enforcer::new with any notification settings; the termination mode plays
\* no part in the gate
InitNotify ==
    /\ config \in { [cfg EXCEPT !.notifications = n] :
                       cfg \in {c \in KernConfig_load : c.kill_graceful},
                       n \in AllNotificationConfigs }
    /\ current_profile = InitialProfile(config)
    /\ emergency_mode = FALSE
    /\ emergency_since = None
    /\ last_enforcement = 0
    /\ notification_manager = NotificationManager_new(config.notifications)
    /\ now = 0
    /\ pc = "ready"
    /\ last = NoCall
    /\ kp = KillIdle
    /\ notified = NoNotification
    /\ store = NoStore
    /\ bus = NoBus
    /\ kill_log = NoKillLog

\* the manager and an empty outbox, as a notify_* call receives them
Outbox == [nm |-> notification_manager, notes |-> <<>>]

\* a call of category cat returned r: send_notification ran iff r.notes is
\* not empty, and kept tells whether the call left the manager as it was
Fired(cat, r) ==
    /\ notification_manager' = r.nm
    /\ notified' =
          [ cat |-> cat, time |-> now, delivered |-> r.notes # <<>>,
            kept |-> r.nm = notification_manager,
            prev |-> notified.delivered_at[cat],
            delivered_at |-> IF r.notes # <<>>
                             THEN [notified.delivered_at EXCEPT ![cat] = Some(now)]
                             ELSE notified.delivered_at ]
    /\ UNCHANGED << config, current_profile, emergency_mode, emergency_since,
                    last_enforcement, now, pc, last, kp, store, bus, kill_log >>

NotifyProcessKilled ==
    \E r \in {notify_process_killed(Outbox, now)} : Fired("kill", r)

NotifyEmergencyMode ==
    \E r \in {notify_emergency_mode(Outbox, now)} : Fired("emergency", r)

NotifyEmergencyModeResolved ==
    \E r \in {notify_emergency_mode_resolved(Outbox, now)} : Fired("resolved", r)

NotifyResourceLimitExceeded ==
    \E resource_type \in {"CPU", "RAM"} :
    \E r \in {notify_resource_limit_exceeded(Outbox, now, resource_type)} :
        Fired("warning", r)

NotifyTemperatureWarning ==
    \E r \in {notify_temperature_warning(Outbox, now)} : Fired("warning", r)

NotifyProfileSwitched ==
    \E r \in {notify_profile_switched(Outbox, now)} : Fired("profile", r)

\* a second passes between two calls
NotifyTick ==
    /\ now < MaxNotifyClock
    /\ now' = now + 1
    /\ notified' = [ NoNotification EXCEPT
                       !.delivered_at = notified.delivered_at ]
    /\ UNCHANGED << config, current_profile, emergency_mode, emergency_since,
                    last_enforcement, notification_manager, pc, last, kp, store, bus, kill_log >>

NextNotify ==
    \/ NotifyProcessKilled \/ NotifyEmergencyMode \/ NotifyEmergencyModeResolved
    \/ NotifyResourceLimitExceeded \/ NotifyTemperatureWarning
    \/ NotifyProfileSwitched \/ NotifyTick

SpecNotify == InitNotify /\ [][NextNotify]_vars

(* ---------------------------- the profile store ----------------------- *)
\* ProfileManager::new over a configuration directory; the .state file is
\* whatever the last run left
ProfileManagerNewOver(dirs) ==
    /\ \E dir \in dirs :
       \E listing \in ListingOutcomes :
       \E m \in ProfileManager_new(dir, listing) :
          store' = [ up |-> m.result = "Ok",
                     pm |-> [profiles |-> m.profiles,
                             current_profile |-> m.current_profile],
                     state_file |-> store.state_file,
                     call |-> [ NoStoreCall EXCEPT
                                  !.op = "new", !.result = m.result, !.dir = dir,
                                  !.listing = listing,
                                  !.pre = store.pm,
                                  !.pre_state_file = store.state_file ] ]
    /\ UNCHANGED << config, current_profile, emergency_mode, emergency_since,
                    last_enforcement, notification_manager, now, pc, last, kp,
                    notified, bus, kill_log >>

StoreCall(op, profile_name, write, readable, r) ==
    [ NoStoreCall EXCEPT
        !.op = op, !.result = r.result, !.arg = profile_name,
        !.write = write, !.readable = readable,
        !.pre = store.pm, !.pre_state_file = store.state_file ]

\* the program starts: ProfileManager::new, once
ProfileManagerNew == store.call.op = "none" /\ ProfileManagerNewOver(Dirs)

\* the program starts, or starts again over a directory that may have changed
ProfileManagerStart == ProfileManagerNewOver(StoreDirs)

\* ProfileManager::switch_to(profile_name)
SwitchTo ==
    /\ store.up
    /\ \E profile_name \in RequestNames :
       \E write \in WriteOutcomes :
       \E r \in {switch_to(store.pm, store.state_file, profile_name, write)} :
          store' = [ store EXCEPT
                       !.pm = r.pm, !.state_file = r.state_file,
                       !.call = StoreCall("switch_to", profile_name, write, TRUE, r) ]
    /\ UNCHANGED << config, current_profile, emergency_mode, emergency_since,
                    last_enforcement, notification_manager, now, pc, last, kp,
                    notified, bus, kill_log >>

\* KernDBusInterface::set_mode(profile_name)
SetMode ==
    /\ store.up
    /\ \E profile_name \in RequestNames :
       \E write \in WriteOutcomes :
       \E r \in {set_mode(store.pm, store.state_file, profile_name, write)} :
          store' = [ store EXCEPT
                       !.pm = r.pm, !.state_file = r.state_file,
                       !.call = StoreCall("set_mode", profile_name, write, TRUE, r) ]
    /\ UNCHANGED << config, current_profile, emergency_mode, emergency_since,
                    last_enforcement, notification_manager, now, pc, last, kp,
                    notified, bus, kill_log >>

\* ProfileManager::load_state
LoadState ==
    /\ store.up
    /\ \E readable \in BOOLEAN :
       \E r \in {load_state(store.pm, store.state_file, readable)} :
          store' = [ store EXCEPT
                       !.pm = r.pm,
                       !.call = StoreCall("load_state", <<>>, "written", readable, r) ]
    /\ UNCHANGED << config, current_profile, emergency_mode, emergency_since,
                    last_enforcement, notification_manager, now, pc, last, kp,
                    notified, bus, kill_log >>

NextStore == ProfileManagerStart \/ SwitchTo \/ SetMode \/ LoadState

SpecStore == Init /\ [][NextStore]_vars

(* ---------------------------- the D-Bus listener ---------------------- *)
\* start_dbus_server is handed a constructed ProfileManager
StartDBusServer ==
    /\ ~store.up
    /\ ProfileManagerNewOver(StoreDirs)

\* the variables no request touches besides store and bus
BusFrame ==
    UNCHANGED << config, current_profile, emergency_mode, emergency_since,
                 last_enforcement, notification_manager, now, pc, last, kp,
                 notified, kill_log >>

\* a method call arrives: GetCurrentMode, GetAvailableModes or SetMode(name)
BusCall(i) ==
    /\ store.up
    /\ bus.req[i].pc = "idle"
    /\ \/ \E kind \in {"get_current_mode", "get_available_modes"} :
            bus' = [bus EXCEPT !.req[i] =
                       [IdleRequest EXCEPT !.pc = "waiting", !.kind = kind]]
       \/ \E profile_name \in RequestNames :
          \E write \in WriteOutcomes :
            bus' = [bus EXCEPT !.req[i] =
                       [IdleRequest EXCEPT !.pc = "waiting", !.kind = "set_mode",
                                           !.arg = profile_name, !.write = write]]
    /\ UNCHANGED store
    /\ BusFrame

\* self.profile_manager.read().await: granted while no writer holds the lock
ReadLock(i) ==
    /\ bus.req[i].pc = "waiting"
    /\ bus.req[i].kind \in {"get_current_mode", "get_available_modes"}
    /\ bus.writer = {}
    /\ bus' = [bus EXCEPT !.readers = @ \cup {i}, !.req[i].pc = "locked"]
    /\ UNCHANGED store
    /\ BusFrame

\* manager.current_name() or manager.list_names(), and the guard is dropped
\* when the method returns
ReadReturn(i) ==
    /\ bus.req[i].pc = "locked"
    /\ bus.req[i].kind \in {"get_current_mode", "get_available_modes"}
    /\ bus' = [bus EXCEPT
                 !.readers = @ \ {i},
                 !.req[i].pc = "done",
                 !.req[i].result = "Ok",
                 !.req[i].observed =
                     IF bus.req[i].kind = "get_current_mode"
                     THEN Some(store.pm.current_profile)
                     ELSE Some(list_names(store.pm))]
    /\ UNCHANGED store
    /\ BusFrame

\* self.profile_manager.write().await: granted while nobody holds the lock
SetModeLock(i) ==
    /\ bus.req[i].pc = "waiting"
    /\ bus.req[i].kind = "set_mode"
    /\ bus.writer = {} /\ bus.readers = {}
    /\ bus' = [bus EXCEPT !.writer = {i}, !.req[i].pc = "locked"]
    /\ UNCHANGED store
    /\ BusFrame

\* the body of set_mode under the write guard: the check and the switch
SetModeRun(i) ==
    /\ bus.req[i].pc = "locked"
    /\ bus.req[i].kind = "set_mode"
    /\ \E r \in {set_mode(store.pm, store.state_file, bus.req[i].arg,
                           bus.req[i].write)} :
          /\ store' = [ store EXCEPT
                          !.pm = r.pm, !.state_file = r.state_file,
                          !.call = StoreCall("set_mode", bus.req[i].arg,
                                             bus.req[i].write, TRUE, r) ]
          /\ bus' = [bus EXCEPT
                       !.req[i].pc = "ran",
                       !.req[i].result = r.result,
                       !.last_ok = IF r.result = "Ok"
                                   THEN Some(bus.req[i].arg) ELSE @]
    /\ BusFrame

\* set_mode returns and its write guard is dropped
SetModeReturn(i) ==
    /\ bus.req[i].pc = "ran"
    /\ bus' = [bus EXCEPT !.writer = @ \ {i}, !.req[i].pc = "done"]
    /\ UNCHANGED store
    /\ BusFrame

NextBus ==
    \/ StartDBusServer
    \/ \E i \in Requests :
          \/ BusCall(i) \/ ReadLock(i) \/ ReadReturn(i)
          \/ SetModeLock(i) \/ SetModeRun(i) \/ SetModeReturn(i)

SpecBus == Init /\ [][NextBus]_vars

(* ---------------------------- two engines ------------------------------ *)
\* values of limits.max_temp a profile file may set, and of the global CPU
\* and RAM limits a configuration file may set
ProfileMaxTemps == {80, default_max_temp}
GlobalLimits ==
    { [max_cpu_percent |-> default_max_cpu, max_ram_percent |-> default_max_ram],
      [max_cpu_percent |-> 100, max_ram_percent |-> 100] }

\* enforce_once run by a first engine; the sample, the way each process
\* answers a signal and what the call did are kept for the second engine
CycleFirst ==
    /\ pc = "ready"
    /\ \E os \in OsStates :
       \E fate \in [DOMAIN os.table -> Fates] :
       \E stats \in {get_system_stats(os)} :
       \E r \in {enforce_once(stats, World(fate), now)} :
             /\ emergency_mode' = r.emergency_mode
             /\ emergency_since' = r.emergency_since
             /\ last_enforcement' = r.last_enforcement
             /\ notification_manager' = r.w.nm
             /\ last' = [ CallRecord("enforce") EXCEPT
                            !.table = os.table, !.sensor = os.sensor, !.stats = stats,
                            !.exited = r.exited, !.entered = r.entered,
                            !.attempts = r.w.attempts, !.logged = r.w.logged,
                            !.notes = r.w.notes, !.passes = r.w.passes,
                            !.twin = Some([ first |-> EnforceView(r),
                                            second |-> None,
                                            fate |-> fate,
                                            config |-> config,
                                            manager |-> notification_manager ]) ]
    /\ pc' = "called"
    /\ UNCHANGED << config, current_profile, now, kp, notified, store, bus, kill_log >>

\* a second engine: the fields the first engine had before its cycle, with a
\* profile that differs in limits.max_temp only, or a configuration that
\* differs in the global CPU and RAM limits only, or both
SecondEngine ==
    /\ pc = "called" /\ last.op = "enforce" /\ last.result = "Ok"
    /\ is_some(last.twin)
    /\ \E max_temp \in ProfileMaxTemps :
       \E limits \in GlobalLimits :
          /\ max_temp # current_profile.limits.max_temp \/ limits # config.limits
          /\ current_profile' = [current_profile EXCEPT !.limits.max_temp = max_temp]
          /\ config' = [config EXCEPT !.limits = limits]
    /\ emergency_mode' = last.pre_emergency
    /\ emergency_since' = last.pre_since
    /\ last_enforcement' = last.pre_last_enforcement
    /\ notification_manager' = last.twin[1].manager
    /\ pc' = "second"
    /\ UNCHANGED << now, last, kp, notified, store, bus, kill_log >>

\* enforce_once run by the second engine on the sample of the first
CycleSecond ==
    /\ pc = "second"
    /\ \E r \in {enforce_once(last.stats, World(last.twin[1].fate), now)} :
          /\ emergency_mode' = r.emergency_mode
          /\ emergency_since' = r.emergency_since
          /\ last_enforcement' = r.last_enforcement
          /\ notification_manager' = r.w.nm
          /\ last' = [ last EXCEPT
                         !.op = "second",
                         !.twin = Some([ @[1] EXCEPT
                                           !.second = Some(EnforceView(r)) ]) ]
    /\ pc' = "called"
    /\ UNCHANGED << config, current_profile, now, kp, notified, store, bus, kill_log >>

NextPair == CycleFirst \/ SecondEngine \/ CycleSecond \/ Sleep

SpecPair == Init /\ [][NextPair]_vars

(* ---------------------------- cycles that notify ----------------------- *)
\* Enforcer::new on a configuration whose notifications are enabled
InitWarn ==
    /\ config \in { [cfg EXCEPT !.notifications = n] :
                       cfg \in KernConfig_load,
                       n \in {m \in AllNotificationConfigs :
                                 m.enabled /\ m.show_on_profile_switch} }
    /\ current_profile = InitialProfile(config)
    /\ emergency_mode = FALSE
    /\ emergency_since = None
    /\ last_enforcement = 0
    /\ notification_manager = NotificationManager_new(config.notifications)
    /\ now = 0
    /\ pc = "ready"
    /\ last = NoCall
    /\ kp = KillIdle
    /\ notified = NoNotification
    /\ store = NoStore
    /\ bus = NoBus
    /\ kill_log = NoKillLog

NextWarn == EnforceOnce \/ Sleep

SpecWarn == InitWarn /\ [][NextWarn]_vars

(* ---------------------------- a failing sensor ------------------------- *)
\* warning thresholds a configuration file may set: the lowest that
\* validation accepts, and the default
SensorWarnings == {0, default_temp_warning}

\* the configurations KernConfig::load accepts from such files
SensorConfigs ==
    { cfg \in { [c EXCEPT !.temperature.warning = w] :
                   c \in KernConfig_load, w \in SensorWarnings } :
        KernConfig_validate(cfg) }

InitSensor ==
    /\ config \in SensorConfigs
    /\ current_profile = InitialProfile(config)
    /\ emergency_mode = FALSE
    /\ emergency_since = None
    /\ last_enforcement = 0
    /\ notification_manager = NotificationManager_new(config.notifications)
    /\ now = 0
    /\ pc = "ready"
    /\ last = NoCall
    /\ kp = KillIdle
    /\ notified = NoNotification
    /\ store = NoStore
    /\ bus = NoBus
    /\ kill_log = NoKillLog

NextSensor == EnforceOnce \/ Sleep

SpecSensor == InitSensor /\ [][NextSensor]_vars

(* ---------------------------- the kill log ----------------------------- *)
\* the limits a caller may pass: negative, zero, below, at and above the
\* number of records
Limits == (0 - 1) .. (MaxLog + 1)

\* the order a returned sequence shows when it shows one: it holds two
\* records that differ, in the order they were appended or in the reverse
OrderOf(returned, lines) ==
    IF Len(returned) < 2 \/ returned = rev(returned) THEN {}
    ELSE (IF \E i \in 0 .. Len(lines) - Len(returned) :
                returned = SubSeq(lines, i + 1, i + Len(returned))
          THEN {"append"} ELSE {})
         \cup
         (IF \E i \in 0 .. Len(lines) - Len(returned) :
                rev(returned) = SubSeq(lines, i + 1, i + Len(returned))
          THEN {"reverse"} ELSE {})

LogFrame ==
    UNCHANGED << config, current_profile, emergency_mode, emergency_since,
                 last_enforcement, notification_manager, now, pc, last, kp,
                 notified, store, bus >>

\* killer::log_kill_action appends one record for an attempt; when the log
\* file cannot be opened the record is dropped without an error
LogKillAction ==
    /\ Len(kill_log.lines) < MaxLog
    /\ \E pid \in 1 .. 2 :
       \E success \in BOOLEAN :
       \E opened \in BOOLEAN :
          kill_log' = [ kill_log EXCEPT
                          !.lines = IF opened
                                    THEN Append(@, log_kill_action(now, pid,
                                           "firefox", success, config.kill_graceful))
                                    ELSE @,
                          !.op = "append" ]
    /\ LogFrame

\* GetProcessKillLog(limit); readable is whether fs::read_to_string succeeds
\* on a log file that exists
GetProcessKillLog ==
    /\ \E limit \in Limits :
       \E readable \in BOOLEAN :
       \E returned \in {IF readable \/ kill_log.lines = <<>>
                        THEN get_process_kill_log(kill_log.lines, limit)
                        ELSE <<>>} :
          kill_log' = [ kill_log EXCEPT
                          !.op = "get", !.limit = limit,
                          !.result = IF readable \/ kill_log.lines = <<>>
                                     THEN "Ok" ELSE "Err",
                          !.returned = returned,
                          !.orders = @ \cup OrderOf(returned, kill_log.lines) ]
    /\ LogFrame

NextLog == LogKillAction \/ GetProcessKillLog

SpecLog == Init /\ [][NextLog]_vars

(* ---------------------------- loading the profiles --------------------- *)
NextLoad == ProfileManagerNew

SpecLoad == Init /\ [][NextLoad]_vars

(* ---------------------------- loading the configuration ---------------- *)
\* the values a configuration file may give a threshold, a percentage and
\* the interval: on and just outside each end of the accepted range
FileThresholdVals == {0 - 1, 0, default_temp_warning, default_temp_critical, 120, 121}
FilePercentVals == {0 - 1, 0, 100, 101}
FileIntervalVals == {0, 1, 3600, 3601}

\* KernConfig::default(), with the termination mode the engine reads
KernConfig_default ==
    [ default_profile     |-> "normal",
      monitor_interval    |-> default_monitor_interval,
      temperature         |-> [warning |-> default_temp_warning,
                               critical |-> default_temp_critical],
      limits              |-> [max_cpu_percent |-> default_max_cpu,
                               max_ram_percent |-> default_max_ram],
      protected_processes |-> default_protected_processes,
      notifications       |-> [enabled |-> TRUE, show_on_kill |-> TRUE,
                               show_on_profile_switch |-> TRUE],
      kill_graceful       |-> TRUE ]

\* the configurations a kern.yaml may describe: every pair of thresholds,
\* and the ones that differ from the default in one other field
ConfigFiles ==
    { [KernConfig_default EXCEPT !.temperature = [warning |-> w, critical |-> c]] :
        w \in FileThresholdVals, c \in FileThresholdVals }
    \cup { [KernConfig_default EXCEPT !.monitor_interval = v] : v \in FileIntervalVals }
    \cup { [KernConfig_default EXCEPT !.limits.max_cpu_percent = v] : v \in FilePercentVals }
    \cup { [KernConfig_default EXCEPT !.limits.max_ram_percent = v] : v \in FilePercentVals }

\* KernConfig::load_from_file: Some(config) for Ok, None for Err
KernConfig_load_from_file(file) ==
    IF KernConfig_validate(file) THEN Some(file) ELSE None

\* KernConfig::load when a kern.yaml exists: the program runs on the file's
\* configuration, or the load fails and it keeps none of it
KernConfigLoadFile ==
    /\ pc = "ready"
    /\ \E file \in ConfigFiles :
       \E loaded \in {KernConfig_load_from_file(file)} :
          /\ config' = IF is_some(loaded) THEN loaded[1] ELSE config
          /\ last' = [ NoCall EXCEPT
                         !.op = "load",
                         !.result = IF is_some(loaded) THEN "Ok" ELSE "Err",
                         !.file = Some(file) ]
    /\ UNCHANGED << current_profile, emergency_mode, emergency_since,
                    last_enforcement, notification_manager, now, pc, kp,
                    notified, store, bus, kill_log >>

\* KernConfig::load when no kern.yaml exists: Ok(Self::default())
KernConfigLoadDefault ==
    /\ pc = "ready"
    /\ config' = KernConfig_default
    /\ last' = [NoCall EXCEPT !.op = "load"]
    /\ UNCHANGED << current_profile, emergency_mode, emergency_since,
                    last_enforcement, notification_manager, now, pc, kp,
                    notified, store, bus, kill_log >>

NextConfig == KernConfigLoadFile \/ KernConfigLoadDefault

SpecConfig == Init /\ [][NextConfig]_vars

(* ---------------------------- properties ------------------------------- *)
Range(list) == { list[i] : i \in DOMAIN list }

\* the call that just returned
Cycle == last.op = "enforce" /\ last.result = "Ok"
Switched == last.op = "switch"

\* names no limit or emergency action may target under the given profile
ShieldedNames(profile) ==
    Range(profile.protected) \cup Range(config.protected_processes)
        \cup Range(critical_processes)

\* the snapshot's processes that are neither protected nor critical, in
\* snapshot order
EligibleProcesses ==
    SelectSeq(last.stats.top_processes,
              LAMBDA p : p.name \notin ShieldedNames(last.pre_profile))

Pids(records) == [ i \in DOMAIN records |-> records[i].pid ]

Temperature == last.stats.temperature
Warning == config.temperature.warning
Critical == config.temperature.critical

\* C1: no termination attempt of an evaluation cycle, started in Normal or in
\* Emergency, targets a process whose name is on the active profile's
\* protected list, on the global protected list or in the critical set.
C1_CycleNeverTargetsShielded ==
    last.op = "enforce" =>
        \A i \in DOMAIN last.attempts :
            last.attempts[i].name \notin ShieldedNames(last.pre_profile)

\* an Emergency cycle that saw a profile-protected process and still issued an
\* attempt
C1_Witness ==
    /\ Cycle /\ last.pre_emergency
    /\ last.attempts # <<>>
    /\ \E i \in DOMAIN last.stats.top_processes :
          last.stats.top_processes[i].name \in Range(last.pre_profile.protected)

\* C2: a cycle that starts in Normal on a snapshot with temperature > critical
\* ends in Emergency with emergency_since set, having issued exactly one
\* attempt per eligible process of the snapshot, in snapshot order.
C2_EmergencyEntryKillsAllEligible ==
    (Cycle /\ ~last.pre_emergency /\ Temperature > Critical) =>
        /\ emergency_mode
        /\ is_some(emergency_since)
        /\ Pids(last.attempts) = Pids(EligibleProcesses)

\* an entry cycle with two eligible processes that the sort reordered
C2_Witness ==
    /\ Cycle /\ ~last.pre_emergency /\ Temperature > Critical
    /\ Len(EligibleProcesses) = 2
    /\ Pids(last.attempts) = <<2, 1>>

\* C3: a cycle that starts in Emergency on a snapshot with temperature <
\* warning ends in Normal with emergency_since unset.
C3_EmergencyExit ==
    (Cycle /\ last.pre_emergency /\ Temperature < Warning) =>
        /\ ~emergency_mode
        /\ emergency_since = None

\* an Emergency cycle on a genuinely cool reading
C3_Witness ==
    /\ Cycle /\ last.pre_emergency /\ is_some(last.pre_since)
    /\ Temperature < Warning /\ Temperature > 0
    /\ ~emergency_mode

\* C4: in every reachable state emergency_mode holds exactly when
\* emergency_since is set.
C4_EmergencyIffSince == emergency_mode <=> is_some(emergency_since)

\* switch_profile called while the engine was in Emergency
C4_Witness ==
    /\ Switched /\ last.pre_emergency /\ is_some(last.pre_since)
    /\ ~emergency_mode

\* C5: hysteresis. A cycle enters Emergency only with temperature > critical,
\* leaves it only with temperature < warning, leaves the state as it was for
\* warning <= temperature <= critical, and never both exits and enters.
C5_Hysteresis ==
    Cycle =>
        /\ (~last.pre_emergency /\ emergency_mode) => Temperature > Critical
        /\ (last.pre_emergency /\ ~emergency_mode) => Temperature < Warning
        /\ (Temperature >= Warning /\ Temperature <= Critical) =>
               /\ emergency_mode = last.pre_emergency
               /\ emergency_since = last.pre_since
        /\ ~(last.exited /\ last.entered)

\* an Emergency cycle inside the band, which stays in Emergency
C5_Witness ==
    /\ Cycle /\ last.pre_emergency
    /\ Temperature > Warning /\ Temperature < Critical
    /\ emergency_mode

\* the limit conditions of a cycle, as the specification words them
CpuBreach == last.stats.cpu_usage > last.pre_profile.limits.max_cpu_percent
RamBreach == last.stats.memory_percentage > last.pre_profile.limits.max_ram_percent
WarningBreach == Temperature > Warning /\ Temperature <= Critical
BreachCount ==
    (IF CpuBreach THEN 1 ELSE 0) + (IF RamBreach THEN 1 ELSE 0)
        + (IF WarningBreach THEN 1 ELSE 0)

\* a cycle evaluated in Normal that does not enter Emergency
NormalCycle == Cycle /\ ~last.pre_emergency /\ Temperature <= Critical

\* C6: a Normal cycle that breaches exactly one limit condition (CPU, RAM or
\* temperature warning) and whose first attempt succeeds stays Normal and
\* issues exactly one attempt, on the first eligible process in snapshot
\* order; with no eligible process it issues none.
C6_SingleBreachKillsHeaviest ==
    (/\ NormalCycle /\ BreachCount = 1
     /\ (last.attempts = <<>> \/ last.attempts[1].result = "Ok")) =>
        /\ ~emergency_mode
        /\ IF EligibleProcesses = <<>>
           THEN last.attempts = <<>>
           ELSE Pids(last.attempts) = <<EligibleProcesses[1].pid>>

\* C7: no termination attempt of any engine operation, switch_profile's
\* activation kills included, targets a name on the global protected list, on
\* the active profile's protected list or in the critical set.
C7_NoCallTargetsShielded ==
    \A i \in DOMAIN last.attempts :
        last.attempts[i].name \notin ShieldedNames(last.pre_profile)

\* the live processes switch_profile(p) is to end: named in
\* p.kill_on_activate and not critical
ActivationTargets ==
    { i \in DOMAIN last.table :
        /\ last.table[i].name \in Range(last.new_profile.kill_on_activate)
        /\ last.table[i].name \notin Range(critical_processes) }

ExitCycle == Cycle /\ last.pre_emergency /\ Temperature < Warning

\* C9: the cycle in which the engine exits Emergency issues no termination
\* attempt, for any CPU and memory usage.
C9_ExitCycleNoAttempt == ExitCycle => last.attempts = <<>>

\* C9 as amended: the exit cycle issues no termination attempt when the
\* snapshot breaches neither the CPU nor the RAM limit of the active profile.
C9_ExitCycleNoAttemptWithinLimits ==
    (ExitCycle /\ ~CpuBreach /\ ~RamBreach) => last.attempts = <<>>

\* an exit cycle within the limits on a snapshot with an eligible process
C9_Witness ==
    /\ ExitCycle /\ ~CpuBreach /\ ~RamBreach
    /\ EligibleProcesses # <<>>
    /\ ~emergency_mode

\* C10: a Normal cycle with warning < temperature <= critical stays Normal and
\* issues a pre-emptive attempt for the heaviest eligible process.
C10_WarningBandKillsHeaviest ==
    (Cycle /\ ~last.pre_emergency /\ WarningBreach) =>
        /\ ~emergency_mode
        /\ EligibleProcesses # <<>> =>
              /\ last.attempts # <<>>
              /\ last.attempts[1].pid = EligibleProcesses[1].pid

\* a cycle evaluated in Normal on a snapshot that breaches no limit
QuietCycle ==
    /\ Cycle /\ ~last.pre_emergency
    /\ ~CpuBreach /\ ~RamBreach /\ Temperature <= Warning

\* C11: a Normal cycle on a snapshot that breaches no limit issues no
\* termination attempt and leaves every field of the engine's state as it
\* was: active profile, emergency, emergency_since and last_run.
C11_QuietCycleChangesNothing ==
    QuietCycle =>
        /\ last.attempts = <<>>
        /\ current_profile = last.pre_profile
        /\ emergency_mode = last.pre_emergency
        /\ emergency_since = last.pre_since
        /\ last_enforcement = last.pre_last_enforcement

\* C11 as amended: such a cycle issues no termination attempt and leaves the
\* active profile, emergency and emergency_since as they were, while last_run
\* becomes the time of the cycle.
C11_QuietCycleOnlyStampsLastRun ==
    QuietCycle =>
        /\ last.attempts = <<>>
        /\ current_profile = last.pre_profile
        /\ emergency_mode = last.pre_emergency
        /\ emergency_since = last.pre_since
        /\ last_enforcement = now

\* a quiet cycle at the warning threshold, later than the last one, on a
\* snapshot with an eligible process
C11_Witness ==
    /\ QuietCycle
    /\ Temperature = Warning
    /\ EligibleProcesses # <<>>
    /\ last.pre_last_enforcement < now

\* the cycle whose snapshot fetch failed
FailedFetch == last.op = "enforce" /\ last.result = "Err"

\* C12: when the snapshot fetch fails, enforce_once returns the error, issues
\* no termination attempt and changes nothing of the engine's state (active
\* profile, emergency, emergency_since, last enforcement time), in Normal and
\* in Emergency.
C12_FailedFetchChangesNothing ==
    FailedFetch =>
        /\ last.attempts = <<>>
        /\ last.logged = <<>>
        /\ current_profile = last.pre_profile
        /\ emergency_mode = last.pre_emergency
        /\ emergency_since = last.pre_since
        /\ last_enforcement = last.pre_last_enforcement

\* a failed fetch in Emergency, later than the last completed cycle
C12_Witness ==
    /\ FailedFetch
    /\ last.pre_emergency /\ emergency_mode
    /\ last.pre_last_enforcement < now

\* C13: the polling loop never stops because of a cycle error. After any
\* cycle, returned Ok or Err, the loop can take its next step, which is the
\* sleep of the configured interval and nothing else; after the sleep it can
\* take its next step, which is one whole cycle and nothing else, so no cycle
\* starts before the previous one has completed.
C13_LoopNeverStops ==
    /\ [](pc = "called" => ENABLED Sleep)
    /\ [](pc = "ready" => ENABLED (EnforceOnce \/ EnforceOnceFetchFailed))
    /\ [][pc = "called" =>
            /\ pc' = "ready"
            /\ \/ now' = now + config.monitor_interval
               \/ now' = MaxClock]_vars
    /\ [][pc = "ready" =>
            /\ pc' = "called"
            /\ last'.op = "enforce"
            /\ now' = now]_vars

\* a cycle that failed after the loop had already slept
C13_Witness ==
    /\ FailedFetch
    /\ pc = "called"
    /\ now > 0

\* a cycle that runs the Emergency pass: it enters Emergency, or it started in
\* Emergency and does not leave it
EmergencyCycle ==
    /\ Cycle
    /\ \/ ~last.pre_emergency /\ Temperature > Critical
       \/ last.pre_emergency /\ Temperature >= Warning

\* C14: in an Emergency-mode cycle a failed termination attempt never
\* prevents the later ones: whichever attempts fail, every eligible process of
\* the snapshot receives exactly one attempt, in snapshot order, and the cycle
\* returns Ok.
C14_EmergencyFailuresDoNotBlock ==
    EmergencyCycle =>
        /\ Pids(last.attempts) = Pids(EligibleProcesses)
        /\ last.result = "Ok"
        /\ emergency_mode

\* a cycle that continues in Emergency, whose first attempt fails and whose
\* second attempt succeeds
C14_Witness ==
    /\ EmergencyCycle /\ last.pre_emergency
    /\ Len(last.attempts) = 2
    /\ last.attempts[1].result = "Err"
    /\ last.attempts[2].result = "Ok"

\* the record the kill log is to hold for an attempt
LogRecordOf(a) == [ pid |-> a.pid, name |-> a.name, graceful |-> a.graceful,
                    status |-> IF a.result = "Ok" THEN "ok" ELSE "failed" ]

LogRecords(records) ==
    [ i \in DOMAIN records |->
        [ pid |-> records[i].pid, name |-> records[i].name,
          graceful |-> records[i].graceful, status |-> records[i].status ] ]

\* C15: every termination attempt of a Normal cycle, of an Emergency cycle or
\* of switch_profile, succeeded or failed, appends exactly one record (pid,
\* name, mode, outcome) to the kill log: the records a call appends are those
\* of its attempts, in order.
C15_EveryAttemptLogged ==
    LogRecords(last.logged) =
        [ i \in DOMAIN last.attempts |-> LogRecordOf(last.attempts[i]) ]

\* kill_process has returned
Returned == kp.pc = "returned"

\* the forceful signal was sent once, after 50 polls and no earlier than
\* 5 seconds after the first signal
EscalatedAfterWait ==
    /\ kp.sigkill = 1
    /\ kp.polls = 50
    /\ kp.sigterm = 51
    /\ is_some(kp.sigkill_at) /\ kp.sigkill_at[1] >= 5000

\* C16: a graceful kill_process call against a process that never exits,
\* whether or not it accepts the caller's signals, sends exactly one SIGKILL,
\* after all 50 polls 100 ms apart, no earlier than 5 s after the first signal.
C16_EscalationLaw ==
    /\ (Returned /\ kp.graceful /\ kp.proc0 # "exited" /\ ~kp.self_exit) =>
           EscalatedAfterWait
    /\ (kp.graceful /\ kp.sigkill > 0) => EscalatedAfterWait

\* C16 as amended: a graceful call whose first SIGTERM is delivered to a
\* process that never exits sends exactly one SIGKILL, after all 50 polls
\* 100 ms apart, no earlier than 5 s after the first signal; a graceful call
\* sends no SIGKILL in any other way.
C16_EscalationLawWhenSignalled ==
    /\ (Returned /\ kp.graceful /\ kp.proc0 = "running" /\ ~kp.self_exit) =>
           EscalatedAfterWait
    /\ (kp.graceful /\ kp.sigkill > 0) => EscalatedAfterWait

\* a graceful call that escalated against a process that stayed alive
C16_Witness ==
    /\ Returned /\ kp.graceful /\ kp.proc0 = "running" /\ ~kp.self_exit
    /\ kp.sigkill = 1 /\ kp.result = "Ok"

\* C17: in graceful mode, a target found to have exited at the first send or
\* at any poll makes kill_process return Ok at once: no further signal, and
\* never the forceful one.
C17_ExitedTargetIsSuccess ==
    (kp.graceful /\ kp.found_exited) =>
        /\ Returned
        /\ kp.result = "Ok"
        /\ kp.sigkill = 0
        /\ kp.sigterm = kp.polls + 1
        /\ kp.elapsed_ms = 100 * kp.polls

\* a target that exits during the wait and is found gone at a later poll
C17_Witness ==
    /\ kp.graceful /\ kp.found_exited /\ kp.self_exit
    /\ kp.polls > 1
    /\ Returned

\* C18: in forced mode kill_process sends one SIGKILL at once, no SIGTERM and
\* no wait, and returns Ok exactly when the signal was delivered; a target
\* that had already exited yields Err in forced mode and Ok in graceful mode.
C18_ForcedMode ==
    /\ (Returned /\ ~kp.graceful) =>
           /\ kp.sigkill = 1 /\ kp.sigterm = 0
           /\ kp.polls = 0 /\ kp.elapsed_ms = 0
           /\ kp.result = "Ok" <=> kp.proc0 = "running"
    /\ (Returned /\ kp.proc0 = "exited") =>
           (kp.result = "Ok" <=> kp.graceful)

\* a forced call on a target that had already exited
C18_Witness ==
    /\ Returned /\ ~kp.graceful
    /\ kp.proc0 = "exited"
    /\ kp.result = "Err"

\* the minimum interval the specification gives a category: 5 s for the
\* emergency-mode transitions, 3 s for the routine ones
CategoryInterval(cat) == IF cat \in {"emergency", "resolved"} THEN 5 ELSE 3

\* the call just made came less than d seconds after the last delivery of
\* its category
TooSoon(d) == is_some(notified.prev) /\ notified.time - notified.prev[1] < d

\* C19: in every notification category (process killed, resource limit or
\* warning, emergency activated, emergency resolved, profile switched) a
\* notification fired less than the category's minimum interval after a
\* delivered one is not delivered.
C19_RateLimitEveryCategory ==
    (notified.cat \in Categories /\ notified.delivered) =>
        ~TooSoon(CategoryInterval(notified.cat))

\* a step leaves the timestamp of every category but the one it fired
OtherStampsKept ==
    /\ notified'.cat # "kill" =>
           notification_manager'.last_kill_notification
               = notification_manager.last_kill_notification
    /\ notified'.cat # "warning" =>
           notification_manager'.last_warning_notification
               = notification_manager.last_warning_notification
    /\ notified'.cat # "emergency" =>
           notification_manager'.last_emergency_notification
               = notification_manager.last_emergency_notification

\* a call is dropped exactly when its own category delivered less than its
\* interval ago
OwnIntervalDecides ==
    notification_manager.enabled =>
        /\ notified.cat = "emergency" => (notified.delivered <=> ~TooSoon(5))
        /\ notified.cat = "warning" => (notified.delivered <=> ~TooSoon(3))
        /\ (notified.cat = "kill" /\ notification_manager.show_on_kill) =>
               (notified.delivered <=> ~TooSoon(3))

\* C20: emergency activations and routine (kill, warning) notifications are
\* rate-limited independently. A call is dropped exactly when its own
\* category delivered less than its interval ago, 5 s for emergency and 3 s
\* for kill and warning, whatever the other categories delivered, and a call
\* leaves the timestamps of the other categories as they were.
C20_IndependentRateLimits == []OwnIntervalDecides /\ [][OtherStampsKept]_vars

\* an emergency notification delivered in the very second in which a kill
\* and a warning notification were delivered
C20_Witness ==
    /\ notified.cat = "emergency" /\ notified.delivered
    /\ notified.delivered_at["kill"] = Some(notified.time)
    /\ notified.delivered_at["warning"] = Some(notified.time)
    /\ notified.time > 0

\* C21: the notification gate never feeds back into enforcement. Engines that
\* start a call from the same fields on the same sample (or the same
\* switch_profile request) and differ only in their notification manager, in
\* its configuration or in its timestamps, leave the same engine fields, make
\* the same termination attempts with the same results and log the same
\* records, and the call returns Ok whatever the notify calls did.
C21_NotificationsDoNotFeedBack ==
    is_some(last.twin) =>
        /\ last.twin[1].others = {last.twin[1].own}
        /\ last.twin[1].own.result = "Ok"
        /\ last.result = "Ok"

\* a cycle that made an attempt, where one twin delivered a notification and
\* another, rate limited or with the category off, delivered none
C21_Witness ==
    /\ is_some(last.twin)
    /\ last.op = "enforce"
    /\ last.attempts # <<>>
    /\ last.notes = <<>>
    /\ <<>> \in last.twin[1].notes
    /\ \E n \in last.twin[1].notes : Len(n) >= 2

\* the switch that turns a category off: enabled for all of them, and
\* show_on_kill and show_on_profile_switch for their own
CategoryOff(cat) ==
    \/ ~notification_manager.enabled
    \/ cat = "kill" /\ ~notification_manager.show_on_kill
    \/ cat = "profile" /\ ~notification_manager.show_on_profile_switch

\* the manager's last-fired timestamp of a category, None where it has no
\* field for the category
CategoryStamp(cat) ==
    CASE cat = "kill" -> notification_manager.last_kill_notification
      [] cat = "warning" -> notification_manager.last_warning_notification
      [] cat = "emergency" -> notification_manager.last_emergency_notification
      [] OTHER -> None

\* C22: a notification dropped because notifications are disabled or its
\* category is disabled delivers nothing and leaves every last-fired
\* timestamp as it was, and a delivered notification sets the timestamp of
\* its category to the time of the call.
C22_DroppedKeepsDeliveredStamps ==
    notified.cat # "none" =>
        /\ CategoryOff(notified.cat) => ~notified.delivered /\ notified.kept
        /\ notified.delivered => CategoryStamp(notified.cat) = Some(notified.time)

\* a switch request was the last call on the store
SwitchRequest == store.call.op \in {"switch_to", "set_mode"}

\* the requested name is none of the loaded profiles
UnknownName == ~(store.call.arg \in DOMAIN store.call.pre.profiles)

\* C23: a switch request (switch_to, or SetMode over D-Bus) that names a
\* profile not in the loaded set returns an error and changes nothing: the
\* manager, its current profile name included, and the persisted state file
\* are as they were before the call.
C23_UnknownProfileChangesNothing ==
    (SwitchRequest /\ UnknownName) =>
        /\ store.call.result = "Err"
        /\ store.pm = store.call.pre
        /\ store.state_file = store.call.pre_state_file

\* switch_to of a name that is not loaded, on a store whose state file
\* holds a name and at a moment when a write would have damaged the file
C23_Witness ==
    /\ store.call.op = "switch_to"
    /\ UnknownName
    /\ store.call.arg = <<"gaming">>
    /\ is_some(store.call.pre_state_file)
    /\ store.call.write = "truncated"

\* C24: switch_to(name) is atomic. It either succeeds, and then the in-memory
\* current profile and the name in the state file are both name, or it
\* returns an error and the in-memory current profile is the one from before
\* the call, also when the write of the state file fails.
C24_SwitchToAtomic ==
    store.call.op = "switch_to" =>
        \/ /\ store.call.result = "Ok"
           /\ store.pm.current_profile = store.call.arg
           /\ store.state_file = Some(store.call.arg)
        \/ /\ store.call.result = "Err"
           /\ store.pm.current_profile = store.call.pre.current_profile

\* C25: once the manager is constructed, after any sequence of switch_to and
\* set_mode calls, failed or not, of load_state calls and of restarts, the
\* current profile name is the key of exactly one loaded profile, so
\* current() returns a profile and never an error.
C25_CurrentIsLoaded ==
    store.up =>
        /\ Cardinality({k \in DOMAIN store.pm.profiles :
                            k = store.pm.current_profile}) = 1
        /\ is_some(current(store.pm))

\* load_state on a store whose state file holds a name that is readable and
\* is not loaded any more
C25_Witness ==
    /\ store.up
    /\ store.call.op = "load_state"
    /\ store.call.readable
    /\ is_some(store.call.pre_state_file)
    /\ store.call.pre_state_file[1] = <<"coding">>
    /\ ~(<<"coding">> \in DOMAIN store.pm.profiles)

\* C26: a successful SetMode activates the profile in the enforcement engine:
\* after it the engine's active profile is the named one, emergency is false
\* and the engine has run the switch that attempts the profile's
\* kill_on_activate names, so the store's current profile and the engine's
\* profile do not disagree.
C26_SetModeActivatesInEngine ==
    (store.call.op = "set_mode" /\ store.call.result = "Ok") =>
        /\ <<current_profile.name>> = store.call.arg
        /\ <<current_profile.name>> = store.pm.current_profile
        /\ emergency_mode = FALSE
        /\ last.op = "switch"

\* the name the state file held when load_state was called is a loaded key
PersistedIsLoaded ==
    /\ is_some(store.call.pre_state_file)
    /\ store.call.pre_state_file[1] \in DOMAIN store.pm.profiles

\* C27: the persistence round trip. The state file holds the name n that a
\* successful switch_to(n) wrote; load_state on a store over the same
\* directory that still has n loaded sets the current profile to n, and when
\* the file is absent or its name is no loaded profile load_state leaves the
\* current profile unchanged and returns Ok.
C27_PersistenceRoundTrip ==
    (store.call.op = "load_state" /\ store.call.readable) =>
        /\ store.call.result = "Ok"
        /\ PersistedIsLoaded =>
               store.pm.current_profile = store.call.pre_state_file[1]
        /\ ~PersistedIsLoaded => store.pm = store.call.pre

\* the entries of the directory of the last ProfileManager::new that are
\* *.yaml files, parse and pass validation
ValidEntries ==
    { k \in DOMAIN store.call.dir :
        /\ store.call.dir[k].yaml
        /\ store.call.dir[k].parses
        /\ Profile_validate(store.call.dir[k].profile) }

\* what holds of every load that returns a manager: it holds the valid
\* entries and only them, each under its file stem, and starts on a loaded
\* profile, "normal" when a profile "normal" is loaded
LoadedAsListed ==
    store.call.result = "Ok" =>
        /\ DOMAIN store.pm.profiles = ValidEntries
        /\ \A k \in ValidEntries :
              store.pm.profiles[k] = store.call.dir[k].profile
        /\ store.pm.current_profile \in ValidEntries
        /\ <<"normal">> \in ValidEntries =>
              store.pm.current_profile = <<"normal">>

\* C28 as stated: loading skips every profile file that fails parsing or
\* validation and keeps every valid one; the load fails if and only if no
\* profile loads; and when it succeeds the initial current profile is a
\* loaded one, "normal" when a profile "normal" is loaded.
C28_LoadFailsIffNoProfile ==
    store.call.op = "new" =>
        /\ store.call.result = "Err" <=> ValidEntries = {}
        /\ store.up <=> store.call.result = "Ok"
        /\ LoadedAsListed

\* C28, amended: the load fails if and only if no profile loads or the
\* directory could not be found or listed; the rest as stated.
C28_LoadKeepsValidProfiles ==
    store.call.op = "new" =>
        /\ store.call.result = "Err" <=>
              (ValidEntries = {} \/ store.call.listing # "listed")
        /\ store.up <=> store.call.result = "Ok"
        /\ LoadedAsListed

\* a load over a directory with one valid profile other than "normal" and
\* one file that fails validation
C28_Witness ==
    /\ store.call.op = "new"
    /\ store.call.result = "Ok"
    /\ Cardinality(DOMAIN store.call.dir) = 2
    /\ Cardinality(ValidEntries) = 1
    /\ ~(<<"normal">> \in ValidEntries)
    /\ \E k \in DOMAIN store.call.dir :
          /\ store.call.dir[k].yaml /\ store.call.dir[k].parses
          /\ ~Profile_validate(store.call.dir[k].profile)

\* C29: profile validation accepts a profile exactly when its name is not
\* empty, 0 <= max_cpu_percent <= 100, 0 <= max_ram_percent <= 100 and
\* 0 <= max_temp <= 120, the ends included: a listed *.yaml file that parses
\* is loaded exactly when its profile is within these; so every profile the
\* store holds satisfies them.
C29_ProfileValidation ==
    /\ \A k \in DOMAIN store.call.dir :
          /\ store.call.listing = "listed"
          /\ store.call.dir[k].yaml /\ store.call.dir[k].parses
          =>
             LET p == store.call.dir[k].profile IN
             (k \in DOMAIN store.pm.profiles) <=>
                /\ p.name # ""
                /\ p.limits.max_cpu_percent \in 0..100
                /\ p.limits.max_ram_percent \in 0..100
                /\ p.limits.max_temp \in 0..120
    /\ \A k \in DOMAIN store.pm.profiles :
          LET p == store.pm.profiles[k] IN
             /\ p.name # ""
             /\ p.limits.max_cpu_percent \in 0..100
             /\ p.limits.max_ram_percent \in 0..100
             /\ p.limits.max_temp \in 0..120

\* a store that holds a profile with max_temp 120 and one with
\* max_cpu_percent 100, the upper ends of the ranges
C29_Witness ==
    /\ store.up
    /\ \E k \in DOMAIN store.pm.profiles : store.pm.profiles[k].limits.max_temp = 120
    /\ \E k \in DOMAIN store.pm.profiles :
          store.pm.profiles[k].limits.max_cpu_percent = 100

\* C30: configuration validation rejects a configuration whose critical
\* threshold is not above its warning threshold or whose thresholds are
\* outside 0..120, so every configuration the program has loaded, from a file
\* or from the defaults, has critical > warning within that range.
C30_CriticalAboveWarning ==
    /\ config.temperature.critical > config.temperature.warning
    /\ config.temperature.warning \in 0..120
    /\ config.temperature.critical \in 0..120
    /\ (last.op = "load" /\ is_some(last.file)) =>
          LET t == last.file[1].temperature IN
          (\/ t.critical <= t.warning
           \/ ~(t.warning \in 0..120)
           \/ ~(t.critical \in 0..120)) =>
             /\ last.result = "Err"
             /\ config # last.file[1]

\* a file with equal thresholds was rejected while the configuration of a
\* file whose thresholds are the two ends of the range is in force
C30_Witness ==
    /\ last.op = "load" /\ is_some(last.file)
    /\ last.file[1].temperature.critical = last.file[1].temperature.warning
    /\ last.file[1].temperature.warning = 120
    /\ last.result = "Err"
    /\ config.temperature = [warning |-> 0, critical |-> 120]

\* the requests that hold the lock
Holders == bus.readers \cup bus.writer

\* readers share the lock, a writer has it alone, and set_mode holds it from
\* before its check until after its switch
LockDiscipline ==
    /\ Cardinality(bus.writer) <= 1
    /\ bus.writer # {} => bus.readers = {}
    /\ \A i \in Requests :
          (bus.req[i].kind = "set_mode" /\ bus.req[i].pc \in {"locked", "ran"})
             => bus.writer = {i}

\* what a finished GetCurrentMode saw is one of the available names
ReadersSeeAvailable ==
    \A i \in Requests :
       (bus.req[i].kind = "get_current_mode" /\ bus.req[i].pc = "done") =>
          bus.req[i].observed[1] \in list_names(store.pm)

AllDone == \A i \in Requests : bus.req[i].pc = "done"

\* C31: on the listener, read requests may hold the store lock together but
\* never together with SetMode, and SetMode excludes readers and writers for
\* its whole check-and-switch; so under every interleaving a reader observes
\* a current profile name that is one of the available names, and once all
\* requests have completed the current name is the target of the last
\* successful SetMode.
C31_LockedRequests ==
    /\ LockDiscipline
    /\ ReadersSeeAvailable
    /\ (AllDone /\ is_some(bus.last_ok)) =>
          store.pm.current_profile = bus.last_ok[1]

\* the k most recently appended records, in the order they were appended
MostRecent(k) ==
    SubSeq(kill_log.lines, Len(kill_log.lines) - k + 1, Len(kill_log.lines))

\* the number of records a positive limit asks for
Asked == IF kill_log.limit < Len(kill_log.lines)
         THEN kill_log.limit ELSE Len(kill_log.lines)

\* a call with a positive limit returned the most recent records
RecentReturned ==
    (kill_log.op = "get" /\ kill_log.result = "Ok" /\ kill_log.limit > 0) =>
        \/ kill_log.returned = MostRecent(Asked)
        \/ kill_log.returned = rev(MostRecent(Asked))

\* C32: get_recent_kills(limit) returns the most recent entries of the kill
\* log in one consistent order: a positive limit returns the min(limit, n)
\* most recently appended records, and the sequences returned for all limits,
\* zero and negative included, are ordered the same way relative to the
\* order of appending.
C32_RecentKillsOneOrder ==
    /\ RecentReturned
    /\ Cardinality(kill_log.orders) <= 1

\* C33: a cycle that starts in Emergency on a snapshot whose temperature is
\* still above critical stays in Emergency, leaves emergency_since as it was
\* (the entry time is not refreshed, no second entry happens) and issues an
\* attempt for every eligible process of the snapshot, in snapshot order.
C33_StillCriticalStaysInEmergency ==
    (Cycle /\ last.pre_emergency /\ Temperature > Critical) =>
        /\ emergency_mode
        /\ emergency_since = last.pre_since
        /\ ~last.entered
        /\ Pids(last.attempts) = Pids(EligibleProcesses)

\* an Emergency cycle above critical that runs later than the entry and
\* issues two attempts
C33_Witness ==
    /\ Cycle /\ last.pre_emergency /\ Temperature > Critical
    /\ is_some(last.pre_since) /\ last.pre_since[1] < last_enforcement
    /\ Len(last.attempts) = 2

\* C36: a cycle that starts in Emergency on a snapshot with warning <=
\* temperature <= critical stays in Emergency and still issues an attempt for
\* every eligible process of the snapshot: the terminations go on between the
\* thresholds, not only above critical.
C36_BandKeepsKilling ==
    (Cycle /\ last.pre_emergency
           /\ Temperature >= Warning /\ Temperature <= Critical) =>
        /\ emergency_mode
        /\ ~last.exited
        /\ Pids(last.attempts) = Pids(EligibleProcesses)

\* an Emergency cycle exactly on the warning threshold that issues two
\* attempts, the first of which succeeds
C36_Witness ==
    /\ Cycle /\ last.pre_emergency /\ Temperature = Warning
    /\ Len(last.attempts) = 2
    /\ last.attempts[1].result = "Ok"
    /\ emergency_mode

\* the attempts of the selection passes of the call, one after the other
RECURSIVE Flatten(_)
Flatten(passes) ==
    IF passes = <<>> THEN <<>> ELSE Head(passes) \o Flatten(Tail(passes))

\* a pass attempted the first processes of the eligible list, in that order
PrefixOfEligible(pass) ==
    /\ Len(pass) <= Len(EligibleProcesses)
    /\ \A i \in DOMAIN pass : pass[i].pid = EligibleProcesses[i].pid

Succeeded == { last.attempts[i].pid : i \in { j \in DOMAIN last.attempts :
                                              last.attempts[j].result = "Ok" } }

\* an earlier attempt of the call already succeeded on the pid of attempt i
Repeated(i) ==
    \E j \in DOMAIN last.attempts :
        /\ j < i
        /\ last.attempts[j].pid = last.attempts[i].pid
        /\ last.attempts[j].result = "Ok"

\* what the passes of one Normal cycle do when there are several: each starts
\* on the first eligible process; in graceful mode the attempt on a pid that
\* was already ended succeeds again and is logged as ok, so one pid at most
\* is ended; in forced mode that attempt fails, so every success is on a pid
\* not ended before and there are as many ended pids as successes, at most
\* one per pass
RepeatedPasses ==
    /\ \A k \in DOMAIN last.passes :
          EligibleProcesses # <<>> =>
              /\ last.passes[k] # <<>>
              /\ last.passes[k][1].pid = EligibleProcesses[1].pid
    /\ \A i \in DOMAIN last.attempts :
          Repeated(i) =>
              IF config.kill_graceful
              THEN /\ last.attempts[i].result = "Ok"
                   /\ last.logged[i].status = "ok"
              ELSE /\ last.attempts[i].result = "Err"
                   /\ last.logged[i].status = "failed"
    /\ config.kill_graceful => Cardinality(Succeeded) <= 1
    /\ Cardinality(Succeeded) <= Len(last.passes)

\* C35: in a Normal cycle where k >= 2 of the limit conditions hold there are
\* k selection passes over the same snapshot; each first targets the same
\* process; with graceful kills the repeated attempt on the pid already ended
\* is reported and logged as another success, so one distinct process is
\* ended; with forced kills the repeated attempt fails and the pass moves on,
\* so up to k distinct processes are ended.
C35_RepeatedPassesOnOneSnapshot ==
    (NormalCycle /\ BreachCount >= 2) =>
        /\ Len(last.passes) = BreachCount
        /\ RepeatedPasses

\* the same for the passes the cycle does run
C35_PassesThatRun ==
    (NormalCycle /\ Len(last.passes) >= 2) => RepeatedPasses

\* forced mode: two passes ended two different processes
C35_ForcedTwo ==
    /\ NormalCycle /\ ~config.kill_graceful
    /\ Len(last.passes) = 2 /\ Cardinality(Succeeded) = 2

\* graceful mode: three passes, each reporting a success on the same pid
C35_GracefulThrice ==
    /\ NormalCycle /\ config.kill_graceful
    /\ Len(last.passes) = 3 /\ Cardinality(Succeeded) = 1
    /\ \A k \in 1 .. 3 : last.passes[k][Len(last.passes[k])].result = "Ok"

\* a cycle in which no thermal zone could be read
SensorFailed == Cycle /\ last.sensor = None

\* C37 as stated: when no thermal sensor can be read the snapshot has
\* temperature 0 and the cycle runs; such a cycle that starts in Emergency
\* exits Emergency and clears emergency_since, and such a cycle that starts in
\* Normal does not enter Emergency.
C37_SensorFailureExitsEmergency ==
    SensorFailed =>
        /\ Temperature = 0
        /\ last.pre_emergency => (~emergency_mode /\ emergency_since = None)
        /\ ~last.pre_emergency => (~emergency_mode /\ ~last.entered)

\* C37, amended: when no thermal sensor can be read the snapshot has
\* temperature 0 and the cycle runs; such a cycle that starts in Emergency
\* exits Emergency and clears emergency_since when the warning threshold is
\* above 0, and with a warning threshold of 0 it stays in Emergency, keeps
\* emergency_since and attempts every eligible process; such a cycle that
\* starts in Normal never enters Emergency.
C37_SensorFailureExitsAboveZero ==
    SensorFailed =>
        /\ Temperature = 0
        /\ (last.pre_emergency /\ Warning > 0) =>
               (~emergency_mode /\ emergency_since = None /\ last.exited)
        /\ (last.pre_emergency /\ Warning = 0) =>
               /\ emergency_mode /\ emergency_since = last.pre_since
               /\ Pids(last.attempts) = Pids(EligibleProcesses)
        /\ ~last.pre_emergency => (~emergency_mode /\ ~last.entered)

\* an Emergency cycle that lost the sensor and left Emergency
C37_Witness ==
    /\ SensorFailed /\ last.pre_emergency /\ is_some(last.pre_since)
    /\ Warning > 0
    /\ ~emergency_mode /\ emergency_since = None

\* an Emergency cycle that lost the sensor and went on ending processes
C37_StaysAtZero ==
    /\ SensorFailed /\ last.pre_emergency /\ Warning = 0
    /\ emergency_mode /\ last.attempts # <<>>

\* the cycle of a second engine just returned
SecondCycle == last.op = "second" /\ is_some(last.twin) /\ is_some(last.twin[1].second)

\* the second engine differs from the first in fields C38 names, and in
\* nothing else
DiffersInUnreadOnly ==
    /\ [current_profile EXCEPT !.limits.max_temp = last.pre_profile.limits.max_temp]
          = last.pre_profile
    /\ [config EXCEPT !.limits = last.twin[1].config.limits] = last.twin[1].config

\* C38: two engines that start a cycle from the same engine fields on the
\* same snapshot, whose profiles differ only in limits.max_temp or whose
\* configurations differ only in the global CPU and RAM limits, make the same
\* state transition and the same termination attempts with the same results
\* and log records.
C38_UnreadLimitsDoNotMatter ==
    SecondCycle =>
        /\ DiffersInUnreadOnly
        /\ last.twin[1].second[1] = last.twin[1].first

\* a second engine with another max_temp and other global limits, on a
\* snapshot whose temperature lies between the two max_temp values and whose
\* CPU usage lies between the two global CPU limits, that ran two passes
C38_Witness ==
    /\ SecondCycle
    /\ current_profile.limits.max_temp # last.pre_profile.limits.max_temp
    /\ config.limits # last.twin[1].config.limits
    /\ last.stats.temperature = 80 /\ last.stats.cpu_usage = 95
    /\ Len(last.passes) >= 2
    /\ last.twin[1].second[1].attempts # <<>>

\* every poll of a graceful call sent one more SIGTERM; the wait ended before
\* the 50th poll only at a poll that found the process gone; the SIGKILL was
\* sent once, after the initial SIGTERM and 50 more
PollsAreSigterms ==
    /\ (kp.graceful /\ kp.pc # "idle") => kp.sigterm = kp.polls + 1
    /\ (kp.graceful /\ Returned /\ kp.polls > 0 /\ kp.polls < poll_count) =>
           (kp.found_exited /\ kp.result = "Ok")
    /\ (kp.graceful /\ kp.sigkill > 0) =>
           (kp.sigkill = 1 /\ kp.sigterm = poll_count + 1)

WarningNotes ==
    SelectSeq(last.notes, LAMBDA n : n \in {"CPU", "RAM", "temperature"})

\* the first limit condition of the cycle in the order of evaluation
FirstBreach ==
    IF CpuBreach THEN "CPU" ELSE IF RamBreach THEN "RAM" ELSE "temperature"

\* no warning was delivered less than 3 seconds before the cycle
WarningDue ==
    ~rate_limited(last.pre_manager.last_warning_notification, last_enforcement,
                  min_interval_between_notifications)

\* what a Normal cycle with several warnings does with them: it delivers the
\* first one if none was delivered in the 3 seconds before, drops every later
\* one, records the delivery in the one timestamp the three share and in no
\* other, and delivers a kill notification of the same instant all the same
SharedWarningStamp ==
    /\ WarningNotes = IF WarningDue THEN << FirstBreach >> ELSE << >>
    /\ notification_manager.last_warning_notification =
          (IF WarningDue THEN Some(last_enforcement)
           ELSE last.pre_manager.last_warning_notification)
    /\ notification_manager.last_emergency_notification =
          last.pre_manager.last_emergency_notification
    /\ ( /\ last.pre_manager.show_on_kill
         /\ last.pre_manager.last_kill_notification = None
         /\ \E i \in DOMAIN last.attempts : last.attempts[i].result = "Ok" ) =>
            \E i \in DOMAIN last.notes : last.notes[i] = "kill"

\* C40: the CPU-limit, RAM-limit and temperature-warning notifications share
\* one last-fired timestamp, apart from those of the kill and emergency
\* notifications: a Normal cycle that breaches more than one of the three
\* conditions delivers only the first warning in the order CPU, RAM,
\* temperature and drops the later ones, and still runs one selection pass
\* for each breach.
C40_WarningsShareOneStamp ==
    (NormalCycle /\ last.pre_manager.enabled /\ BreachCount >= 2) =>
        /\ SharedWarningStamp
        /\ Len(last.passes) = BreachCount

\* the same below the critical threshold
C40_WarningsBelowCritical ==
    (NormalCycle /\ last.pre_manager.enabled /\ BreachCount >= 2
                 /\ Temperature < Critical) =>
        /\ SharedWarningStamp
        /\ Len(last.passes) = BreachCount

\* three breaches in one cycle: the RAM and the temperature warning are
\* dropped, three passes run, and the kill notification is delivered
C40_ThreeBreaches ==
    /\ NormalCycle /\ last.pre_manager.enabled
    /\ Len(last.passes) = 3
    /\ WarningNotes = << "CPU" >>
    /\ \E i \in DOMAIN last.notes : last.notes[i] = "kill"

====
